---- MODULE Spec2Model ----
(***************************************************************************)
(* Model of the BaseBase JavaScript SDK: document references and their     *)
(* CRUD operations against the remote document store, the query builder    *)
(* and its two execution strategies, and the process-wide app registry.    *)
(*                                                                         *)
(* Host (JavaScript) values are tagged records: [nullv |-> TRUE],          *)
(* [str |-> s], [num |-> n], [bool |-> b], [date |-> ms], [arr |-> seq],   *)
(* [obj |-> f], [undef |-> TRUE].  A number is [num |-> n] for an integer   *)
(* n below 10^21 in size, [big |-> [digit |-> d, exponent |-> e]] for the  *)
(* integer d * 10^e with e >= 21, [dbl |-> t] for the non-integer t/2 (t   *)
(* odd), or [nan |-> TRUE].  Host objects (document data) are        *)
(* functions from a set of field names to host values.  Wire values are    *)
(* the tagged envelopes of the REST dialect ({stringValue: ...}, ...).     *)
(* A JavaScript string that the code takes apart or compares (a string     *)
(* value, a decimal string) is the sequence of its characters; a path is   *)
(* the sequence of its segments.                                           *)
(***************************************************************************)
EXTENDS Integers, Sequences, FiniteSets, TLC

\* ------------------------------------------------------------------------
\* Bounds of the model
\* ------------------------------------------------------------------------
MaxVal == 2

\* Field names and values of the documents of the modelled collection.
FieldNames == {"a", "b"}
Values == 1..MaxVal

\* ------------------------------------------------------------------------
\* Error codes (types.ts BASEBASE_ERROR_CODES)
\* ------------------------------------------------------------------------
PERMISSION_DENIED == "permission-denied"
NOT_FOUND == "not-found"
ALREADY_EXISTS == "already-exists"
INVALID_ARGUMENT == "invalid-argument"
UNAUTHENTICATED == "unauthenticated"
UNAVAILABLE == "unavailable"
INTERNAL == "internal"
NETWORK_ERROR == "network-error"

BASEBASE_ERROR_CODES ==
  { PERMISSION_DENIED, NOT_FOUND, ALREADY_EXISTS, INVALID_ARGUMENT,
    UNAUTHENTICATED, UNAVAILABLE, INTERNAL, NETWORK_ERROR }

\* ------------------------------------------------------------------------
\* Value codec (toBasebaseValue / fromBasebaseValue)
\* ------------------------------------------------------------------------
DigitChars == <<"0", "1", "2", "3", "4", "5", "6", "7", "8", "9">>

RECURSIVE NatToString(_)
NatToString(n) ==
  IF n < 10 THEN <<DigitChars[n + 1]>>
  ELSE Append(NatToString(n \div 10), DigitChars[(n % 10) + 1])

\* Number.prototype.toString() of an integer.
NumberToString(n) == IF n < 0 THEN <<"-">> \o NatToString(-n) ELSE NatToString(n)

\* Number.prototype.toString() of d * 10^e, e >= 21: exponent notation.
BigToString(big) == <<DigitChars[big.digit + 1], "e", "+">> \o NatToString(big.exponent)

IsDigit(c) == \E i \in 1..10 : DigitChars[i] = c
DigitValue(c) == (CHOOSE i \in 1..10 : DigitChars[i] = c) - 1

RECURSIVE ParseDigits(_, _, _)
\* Reads the leading digits of s from position i on; acc is the value so far.
ParseDigits(s, i, acc) ==
  IF i > Len(s) \/ ~IsDigit(s[i]) THEN acc
  ELSE ParseDigits(s, i + 1, acc * 10 + DigitValue(s[i]))

\* parseInt(s, 10): an optional sign, then the leading decimal digits; NaN
\* when there is no digit.
ParseInt(s) ==
  LET neg == Len(s) > 0 /\ s[1] = "-"
      from == IF Len(s) > 0 /\ (s[1] = "-" \/ s[1] = "+") THEN 2 ELSE 1
  IN  IF from > Len(s) \/ ~IsDigit(s[from]) THEN [nan |-> TRUE]
      ELSE [num |-> (IF neg THEN -1 ELSE 1) * ParseDigits(s, from, 0)]

\* Date.prototype.toISOString() of a date in the first second of the epoch,
\* and the Date constructor on such a string.
EpochPrefix == <<"1", "9", "7", "0", "-", "0", "1", "-", "0", "1", "T",
                 "0", "0", ":", "0", "0", ":", "0", "0", ".">>

toISOString(ms) ==
  EpochPrefix
    \o <<DigitChars[(ms \div 100) + 1], DigitChars[((ms \div 10) % 10) + 1],
         DigitChars[(ms % 10) + 1], "Z">>

DateParse(iso) ==
  LET ms == SubSeq(iso, Len(EpochPrefix) + 1, Len(iso) - 1)
  IN  DigitValue(ms[1]) * 100 + DigitValue(ms[2]) * 10 + DigitValue(ms[3])

RECURSIVE toBasebaseValue(_)
toBasebaseValue(value) ==
  CASE "nullv" \in DOMAIN value -> [nullValue |-> TRUE]
    [] "str"   \in DOMAIN value -> [stringValue |-> value.str]
    [] "num"   \in DOMAIN value -> [integerValue |-> NumberToString(value.num)]
    [] "big"   \in DOMAIN value -> [integerValue |-> BigToString(value.big)]
    [] "dbl"   \in DOMAIN value -> [doubleValue |-> value]
    [] "nan"   \in DOMAIN value -> [doubleValue |-> value]
    [] "bool"  \in DOMAIN value -> [booleanValue |-> value.bool]
    [] "date"  \in DOMAIN value -> [timestampValue |-> toISOString(value.date)]
    [] "arr"   \in DOMAIN value ->
         [arrayValue |->
            [values |-> [i \in DOMAIN value.arr |-> toBasebaseValue(value.arr[i])]]]
    [] "obj"   \in DOMAIN value ->
         [mapValue |->
            [fields |-> [k \in DOMAIN value.obj |-> toBasebaseValue(value.obj[k])]]]
    [] OTHER -> [stringValue |-> <<"u", "n", "d", "e", "f", "i", "n", "e", "d">>]

RECURSIVE fromBasebaseValue(_)
fromBasebaseValue(value) ==
  CASE "stringValue"    \in DOMAIN value -> [str |-> value.stringValue]
    [] "integerValue"   \in DOMAIN value -> ParseInt(value.integerValue)
    [] "doubleValue"    \in DOMAIN value -> value.doubleValue
    [] "booleanValue"   \in DOMAIN value -> [bool |-> value.booleanValue]
    [] "nullValue"      \in DOMAIN value -> [nullv |-> TRUE]
    [] "timestampValue" \in DOMAIN value -> [date |-> DateParse(value.timestampValue)]
    [] "arrayValue"     \in DOMAIN value ->
         [arr |-> [i \in DOMAIN value.arrayValue.values |->
                     fromBasebaseValue(value.arrayValue.values[i])]]
    [] "mapValue"       \in DOMAIN value ->
         [obj |-> [k \in DOMAIN value.mapValue.fields |->
                     fromBasebaseValue(value.mapValue.fields[k])]]
    [] OTHER -> [obj |-> value]

\* The fields object that makeDocumentRequest puts in a request body.
\* The key of an object that has a dot in it, and what comes before the dot.
DottedKey == "profile.lastLogin"
KeyHead(k) == IF k = DottedKey THEN "profile" ELSE k

\* Request fields in which a dotted key is expanded into a nested map.
toBasebaseFieldsExpanded(data) ==
  [h \in { KeyHead(k) : k \in DOMAIN data } |->
     IF h \in DOMAIN data THEN toBasebaseValue(data[h])
     ELSE [mapValue |-> [fields |-> [n \in {"lastLogin"} |->
                                       toBasebaseValue(data[DottedKey])]]]]

toBasebaseFields(data) == [k \in DOMAIN data |-> toBasebaseValue(data[k])]

\* fromBasebaseDocument: the host object of a wire document's fields.
fromBasebaseDocument(doc) == [k \in DOMAIN doc.fields |-> fromBasebaseValue(doc.fields[k])]

\* ------------------------------------------------------------------------
\* State
\* ------------------------------------------------------------------------
VARIABLES
  store,        \* the remote document: [exists, fields] (fields in wire format)
  token,        \* the stored credential: "valid", "expired" or "none"
  pc,           \* position of the client's current call
  call,         \* the current call and its arguments
  requestData,  \* set(): the host object that goes into the PUT
  sent,         \* requests the current call has sent so far
  answers,      \* the remote's answers to those requests
  result,       \* what the current call returned or threw
  readDoc,      \* set() with merge: the remote document when its read was answered
  raced,        \* another writer wrote between that read and the PUT
  previous,     \* the call the caller made before this one, and what it gave
  queries,      \* the QueryImpl objects created so far
  builderCall,  \* the last call of the query builder and what it gave
  appRegistry,  \* app.ts appRegistry: the Map's entries in insertion order
  basebaseRegistry, \* app.ts basebaseRegistry, likewise
  apps,         \* the app objects handed out so far
  appCall,      \* the last call of the app module and what it gave
  refCall,      \* the last call of doc(), collection() or resolvePath()
  codecCall,    \* the last value given to the codec and what came back
  isBrowser,    \* the environment has window and document
  directToken,  \* auth.ts directToken ("" for null)
  authStorage,  \* the cookie and localStorage entries basebase_token, _user, _project
  expired,      \* the tokens whose exp lies in the past
  authListeners, \* auth.ts authListeners
  heard,        \* the auth states each listener has been called with
  unsubscribed, \* the listeners whose unsubscribe function has been called
  databases,    \* the tokens the instances returned by getDatabase were made with
  authCall,     \* the last request made through an instance, or the last auth call
  environmentConfig, \* the environment variables hold an API key
  singletonInstance, \* singleton.ts singletonInstance (0 for null)
  initializationError, \* singleton.ts initializationError ("" for null)
  singletonCall \* the last call of the singleton module and what it gave

docVars ==
  <<store, token, pc, call, requestData, sent, answers, result, readDoc, raced,
    previous>>
builderVars == <<queries, builderCall>>
appVars == <<appRegistry, basebaseRegistry, apps, appCall>>
utilVars == <<refCall, codecCall>>
authVars ==
  <<isBrowser, directToken, authStorage, expired, authListeners, heard,
    unsubscribed, databases, authCall>>
singletonVars ==
  <<environmentConfig, singletonInstance, initializationError, singletonCall>>
vars == <<docVars, builderVars, appVars, utilVars, authVars, singletonVars>>

\* An answer of the remote: its outcome and, for a listing or a query that
\* succeeded, the records of its body.
Answer(outcome, body) == [outcome |-> outcome, body |-> body]

\* ------------------------------------------------------------------------
\* Documents
\* ------------------------------------------------------------------------
EmptyObject == [k \in {} |-> [nullv |-> TRUE]]

\* Host objects over the modelled fields, and the same in wire format.
HostDocs == UNION { [S -> {[num |-> v] : v \in Values}] : S \in SUBSET FieldNames }
WireFields == { toBasebaseFields(d) : d \in HostDocs }

NoDocument == [exists |-> FALSE, fields |-> EmptyObject]
StoredDocuments == { [exists |-> TRUE, fields |-> f] : f \in WireFields }

\* ------------------------------------------------------------------------
\* Transport (makeHttpRequest) and credential (getAuthHeader)
\* ------------------------------------------------------------------------
\* What the remote may answer: a 2xx with a JSON body, a 2xx with an empty or
\* non-JSON body, a 2xx whose JSON body does not parse, a non-2xx status, or
\* a transport failure.  (The references pass no timeout to makeHttpRequest,
\* so its abort timer is never armed for their requests.)
HttpOutcomes ==
  { "ok", "okEmpty", "badJson", "s400", "s401", "s403", "s404", "s409",
    "s500", "s503", "netfail" }

HttpSuccess == {"ok", "okEmpty"}

\* The error code makeHttpRequest throws for a failing outcome.
httpErrorCode(outcome) ==
  CASE outcome = "s401" -> UNAUTHENTICATED
    [] outcome = "s403" -> PERMISSION_DENIED
    [] outcome = "s404" -> NOT_FOUND
    [] outcome = "s400" -> INVALID_ARGUMENT
    [] outcome = "s409" -> ALREADY_EXISTS
    [] outcome = "s503" -> UNAVAILABLE
    [] outcome = "timeout" -> UNAVAILABLE
    [] outcome \in {"netfail", "badJson"} -> NETWORK_ERROR
    [] OTHER -> INTERNAL

\* getAuthHeader: throws UNAUTHENTICATED without a token or with an expired
\* one, and removes an expired token.
\* A getAuthHeader that only looks whether a token is stored.
authHeaderOkWhenStored == token # "none"

authHeaderOk == token = "valid"
tokenAfterAuthHeader == IF token = "expired" THEN "none" ELSE token

\* ------------------------------------------------------------------------
\* Results
\* ------------------------------------------------------------------------
NoResult ==
  [kind |-> "none", code |-> "", exists |-> FALSE, hasData |-> FALSE,
   data |-> EmptyObject, docs |-> << >>, id |-> << >>]

ThrownError(c) == [NoResult EXCEPT !.kind = "error", !.code = c]

\* A thrown value that is no BasebaseError (a TypeError of the runtime).
ThrownTypeError == [NoResult EXCEPT !.kind = "typeError"]

WriteResult == [NoResult EXCEPT !.kind = "writeResult"]

\* DocumentSnapshotImpl: exists, and data() of the document it wraps.  A
\* response with a fields property is decoded; any other object is cloned.
DocumentSnapshotImpl(hasDocument, hasFields, fields, exists) ==
  [NoResult EXCEPT
     !.kind = "documentSnapshot",
     !.exists = exists,
     !.hasData = hasDocument,
     !.data = IF hasDocument /\ hasFields
              THEN fromBasebaseDocument([fields |-> fields])
              ELSE EmptyObject]

QuerySnapshotImpl(documents) ==
  [NoResult EXCEPT !.kind = "querySnapshot", !.docs = documents]

\* ------------------------------------------------------------------------
\* Requests
\* ------------------------------------------------------------------------
DocumentTarget == "document"
CollectionTarget == "collection"
RunQueryTarget == "runQuery"

HttpRequest(method, target, data) ==
  [method |-> method, target |-> target, fields |-> toBasebaseFields(data)]

NoCall ==
  [op |-> "none", data |-> EmptyObject, merge |-> FALSE,
   hasMergeFields |-> FALSE, mergeFields |-> {}, constraints |-> << >>]

\* A call that has ended: its arguments and locals are gone, what it sent,
\* what it was answered and what it gave the caller remain.
Ended(c) == [NoCall EXCEPT !.op = c.op, !.merge = c.merge,
                           !.hasMergeFields = c.hasMergeFields,
                           !.constraints = c.constraints]

\* ------------------------------------------------------------------------
\* DocumentReference.get
\* ------------------------------------------------------------------------
\* The answers the remote can give to a GET of the document.
DocumentGetOutcomes ==
  (HttpOutcomes \ {"ok", "s404"}) \cup (IF store.exists THEN {"ok"} ELSE {"s404"})

\* A get() that lacks the NotFound case and lets every error through.
DocumentGetResultRethrowing(outcome) ==
  CASE outcome = "ok" -> DocumentSnapshotImpl(TRUE, TRUE, store.fields, TRUE)
    [] outcome = "okEmpty" -> DocumentSnapshotImpl(TRUE, FALSE, EmptyObject, TRUE)
    [] OTHER -> ThrownError(httpErrorCode(outcome))

\* What get() returns or throws when its request ends with the outcome.
DocumentGetResult(outcome) ==
  CASE outcome = "ok" -> DocumentSnapshotImpl(TRUE, TRUE, store.fields, TRUE)
    [] outcome = "okEmpty" -> DocumentSnapshotImpl(TRUE, FALSE, EmptyObject, TRUE)
    [] httpErrorCode(outcome) = NOT_FOUND ->
         DocumentSnapshotImpl(FALSE, FALSE, EmptyObject, FALSE)
    [] OTHER -> ThrownError(httpErrorCode(outcome))

DocGet_Call ==
  /\ pc = "idle"
  /\ call' = [NoCall EXCEPT !.op = "get"]
  /\ token' = tokenAfterAuthHeader
  /\ IF authHeaderOk
     THEN /\ sent' = <<HttpRequest("GET", DocumentTarget, EmptyObject)>>
          /\ pc' = "get_wait"
          /\ result' = NoResult
     ELSE /\ sent' = << >>
          /\ pc' = "done"
          /\ result' = ThrownError(UNAUTHENTICATED)
  /\ UNCHANGED <<store, requestData, answers, readDoc, raced>>
  /\ UNCHANGED <<previous, builderVars, appVars, utilVars, authVars, singletonVars>>

DocGet_Response(outcome) ==
  /\ pc = "get_wait"
  /\ outcome \in DocumentGetOutcomes
  /\ answers' = Append(answers, Answer(outcome, << >>))
  /\ result' = DocumentGetResult(outcome)
  /\ pc' = "done"
  /\ UNCHANGED <<store, token, call, requestData, sent, readDoc, raced>>
  /\ UNCHANGED <<previous, builderVars, appVars, utilVars, authVars, singletonVars>>

\* ------------------------------------------------------------------------
\* DocumentReference.set
\* ------------------------------------------------------------------------
\* The options of a set(): options.merge, and options.mergeFields when given.
SetOptions ==
  { o \in [merge : BOOLEAN, hasMergeFields : BOOLEAN, mergeFields : SUBSET FieldNames] :
      /\ ~o.hasMergeFields => o.mergeFields = {}
      /\ o.merge /\ o.hasMergeFields => o.mergeFields = FieldNames }

\* A set() that spreads the existing data over the new data.
mergedRequestDataReversed(data, options, snapshot) ==
  IF snapshot.exists /\ snapshot.hasData
  THEN IF options.merge
       THEN [k \in DOMAIN snapshot.data \cup DOMAIN data |->
               IF k \in DOMAIN snapshot.data THEN snapshot.data[k] ELSE data[k]]
       ELSE [k \in DOMAIN snapshot.data \cup (options.mergeFields \cap DOMAIN data) |->
               IF k \in DOMAIN snapshot.data THEN snapshot.data[k] ELSE data[k]]
  ELSE data

\* The object set() writes, given the snapshot its read returned.
mergedRequestData(data, options, snapshot) ==
  IF snapshot.exists /\ snapshot.hasData
  THEN IF options.merge
       THEN [k \in DOMAIN snapshot.data \cup DOMAIN data |->
               IF k \in DOMAIN data THEN data[k] ELSE snapshot.data[k]]
       ELSE [k \in DOMAIN snapshot.data \cup (options.mergeFields \cap DOMAIN data) |->
               IF k \in options.mergeFields \cap DOMAIN data
               THEN data[k] ELSE snapshot.data[k]]
  ELSE data

\* set() sends its PUT, or throws when no credential is usable.
SendPut(c, data, found) ==
  /\ token' = tokenAfterAuthHeader
  /\ IF authHeaderOk
     THEN /\ sent' = Append(sent, HttpRequest("PUT", DocumentTarget, data))
          /\ pc' = "set_write_wait"
          /\ call' = c
          /\ requestData' = data
          /\ readDoc' = found
          /\ result' = NoResult
     ELSE /\ sent' = sent
          /\ pc' = "done"
          /\ call' = Ended(c)
          /\ requestData' = EmptyObject
          /\ readDoc' = NoDocument
          /\ result' = ThrownError(UNAUTHENTICATED)

DocSet_Call(isObject, data, options) ==
  /\ pc = "idle"
  /\ LET c == [NoCall EXCEPT !.op = "set", !.data = data,
                             !.merge = options.merge,
                             !.hasMergeFields = options.hasMergeFields,
                             !.mergeFields = options.mergeFields]
     IN  IF ~isObject
         THEN /\ pc' = "done"
              /\ call' = Ended(c)
              /\ result' = ThrownError(INVALID_ARGUMENT)
              /\ UNCHANGED <<token, requestData, sent, readDoc>>
         ELSE IF options.merge \/ options.hasMergeFields
         THEN /\ token' = tokenAfterAuthHeader
              /\ UNCHANGED <<requestData, readDoc>>
              /\ IF authHeaderOk
                 THEN /\ sent' = <<HttpRequest("GET", DocumentTarget, EmptyObject)>>
                      /\ pc' = "set_read_wait"
                      /\ call' = c
                      /\ result' = NoResult
                 ELSE /\ sent' = << >>
                      /\ pc' = "done"
                      /\ call' = Ended(c)
                      /\ result' = ThrownError(UNAUTHENTICATED)
         ELSE SendPut(c, data, NoDocument)
  /\ UNCHANGED <<store, answers, raced>>
  /\ UNCHANGED <<previous, builderVars, appVars, utilVars, authVars, singletonVars>>

DocSet_ReadResponse(outcome) ==
  /\ pc = "set_read_wait"
  /\ outcome \in DocumentGetOutcomes
  /\ answers' = Append(answers, Answer(outcome, << >>))
  /\ LET snapshot == DocumentGetResult(outcome)
     IN  IF snapshot.kind = "error"
         THEN /\ pc' = "done"
              /\ call' = Ended(call)
              /\ result' = snapshot
              /\ UNCHANGED <<token, requestData, sent, readDoc>>
         ELSE SendPut(call, mergedRequestData(call.data, call, snapshot), store)
  /\ raced' = FALSE
  /\ UNCHANGED store
  /\ UNCHANGED <<previous, builderVars, appVars, utilVars, authVars, singletonVars>>

\* The remote applies a PUT when it answers 2xx; when the connection fails
\* the write may or may not have been applied.
PutApplied(outcome, applied) ==
  IF outcome \in {"ok", "okEmpty", "badJson"} THEN applied
  ELSE IF outcome = "netfail" THEN TRUE
  ELSE ~applied

\* A PUT that the remote applies only to the document the call has read: a
\* write over another writer's change is refused with a conflict.
DocSet_WriteResponseConditional(outcome, applied) ==
  /\ pc = "set_write_wait"
  /\ outcome \in HttpOutcomes
  /\ PutApplied(outcome, applied)
  /\ answers' = Append(answers, Answer(outcome, << >>))
  /\ store' = IF applied /\ ~raced
              THEN [exists |-> TRUE, fields |-> sent[Len(sent)].fields]
              ELSE store
  /\ result' = IF raced THEN ThrownError(ALREADY_EXISTS)
               ELSE IF outcome \in HttpSuccess THEN WriteResult
               ELSE ThrownError(httpErrorCode(outcome))
  /\ pc' = "done"
  /\ call' = Ended(call)
  /\ requestData' = EmptyObject
  /\ readDoc' = NoDocument
  /\ UNCHANGED <<token, sent, raced>>
  /\ UNCHANGED <<previous, builderVars, appVars, utilVars, authVars, singletonVars>>

DocSet_WriteResponse(outcome, applied) ==
  /\ pc = "set_write_wait"
  /\ outcome \in HttpOutcomes
  /\ PutApplied(outcome, applied)
  /\ answers' = Append(answers, Answer(outcome, << >>))
  /\ store' = IF applied
              THEN [exists |-> TRUE, fields |-> sent[Len(sent)].fields]
              ELSE store
  /\ result' = IF outcome \in HttpSuccess THEN WriteResult
               ELSE ThrownError(httpErrorCode(outcome))
  /\ pc' = "done"
  /\ call' = Ended(call)
  /\ requestData' = EmptyObject
  /\ readDoc' = NoDocument
  /\ UNCHANGED <<token, sent, raced>>
  /\ UNCHANGED <<previous, builderVars, appVars, utilVars, authVars, singletonVars>>

\* ------------------------------------------------------------------------
\* The caller takes the result; other clients; the credential
\* ------------------------------------------------------------------------
\* What the caller keeps of a call that has ended.
NoPrevious == [op |-> "none", result |-> NoResult]

TakeResult(kept) ==
  /\ pc = "done"
  /\ pc' = "idle"
  /\ call' = NoCall
  /\ requestData' = EmptyObject
  /\ sent' = << >>
  /\ answers' = << >>
  /\ result' = NoResult
  /\ readDoc' = NoDocument
  /\ raced' = FALSE
  /\ previous' = kept
  /\ UNCHANGED <<store, token>>
  /\ UNCHANGED <<builderVars, appVars, utilVars, authVars, singletonVars>>

\* The caller takes the result and goes on to something else.
Return == TakeResult(NoPrevious)

\* The caller takes the result and calls the same reference again.
ReturnAndCallAgain == TakeResult([op |-> call.op, result |-> result])

\* Another client writes or deletes the document.
OtherWriter(document) ==
  /\ document \in StoredDocuments \cup {NoDocument}
  /\ document # store
  /\ store' = document
  /\ raced' = (raced \/ pc = "set_write_wait")
  /\ UNCHANGED <<token, pc, call, requestData, sent, answers, result, readDoc>>
  /\ UNCHANGED <<previous, builderVars, appVars, utilVars, authVars, singletonVars>>

\* verifyCode stores a fresh token; signOut removes it; time passes and the
\* stored token expires.
TokenStored ==
  /\ token # "valid"
  /\ token' = "valid"
  /\ UNCHANGED <<store, pc, call, requestData, sent, answers, result, readDoc, raced>>
  /\ UNCHANGED <<previous, builderVars, appVars, utilVars, authVars, singletonVars>>

TokenExpires ==
  /\ token = "valid"
  /\ token' = "expired"
  /\ UNCHANGED <<store, pc, call, requestData, sent, answers, result, readDoc, raced>>
  /\ UNCHANGED <<previous, builderVars, appVars, utilVars, authVars, singletonVars>>

signOut ==
  /\ token # "none"
  /\ token' = "none"
  /\ UNCHANGED <<store, pc, call, requestData, sent, answers, result, readDoc, raced>>
  /\ UNCHANGED <<previous, builderVars, appVars, utilVars, authVars, singletonVars>>

\* ------------------------------------------------------------------------
\* Wire records of a collection listing and of a structured query
\* ------------------------------------------------------------------------
CollectionPath == <<"proj", "users">>

\* The listing of the collection that holds the modelled document.
StoreListing ==
  IF store.exists
  THEN <<[name |-> <<"projects", "proj", "documents", "users", "d1">>,
          fields |-> store.fields]>>
  ELSE << >>

IndexString(i) == NatToString(i)

\* `if (doc.name)`: the record has a non-empty name.  A name is the sequence
\* of the segments between its slashes.
HasName(doc) == "name" \in DOMAIN doc /\ doc.name # <<"">>

\* JavaScript truthiness of a host value.
Truthy(v) ==
  CASE "undef" \in DOMAIN v -> FALSE
    [] "nullv" \in DOMAIN v -> FALSE
    [] "nan"   \in DOMAIN v -> FALSE
    [] "bool"  \in DOMAIN v -> v.bool
    [] "num"   \in DOMAIN v -> v.num # 0
    [] "str"   \in DOMAIN v -> v.str # << >>
    [] OTHER -> TRUE

\* The first of id, _id and ID that the record has at all, when that is a
\* non-empty string, else the empty string.
IdFieldOfFirstPresent(doc) ==
  LET idKey == IF "id" \in DOMAIN doc THEN "id"
               ELSE IF "_id" \in DOMAIN doc THEN "_id" ELSE "ID"
  IN  IF idKey \in DOMAIN doc /\ "str" \in DOMAIN doc[idKey]
      THEN doc[idKey].str ELSE << >>

\* `doc.id || doc._id || doc.ID` when that is a string, else the empty string.
IdFieldOf(doc) ==
  LET truthy(k) == k \in DOMAIN doc /\ Truthy(doc[k])
      idKey == IF truthy("id") THEN "id"
               ELSE IF truthy("_id") THEN "_id" ELSE "ID"
  IN  IF truthy(idKey) /\ "str" \in DOMAIN doc[idKey] THEN doc[idKey].str ELSE << >>

\* CollectionReferenceImpl.extractDocumentId.  An id is a sequence of the
\* pieces it is put together from; "now" stands for Date.now().
extractDocumentId(doc, fallbackIndex) ==
  IF HasName(doc)
  THEN IF doc.name[Len(doc.name)] # ""
       THEN <<doc.name[Len(doc.name)]>>
       ELSE <<"fallback_">> \o IndexString(fallbackIndex)
  ELSE IF IdFieldOf(doc) # << >> THEN IdFieldOf(doc)
  ELSE <<"doc_">> \o IndexString(fallbackIndex) \o <<"_", "now">>

\* QueryImpl.extractDocumentId (the list endpoint of Query.get).
queryExtractDocumentId(doc, fallbackIndex) ==
  IF HasName(doc)
  THEN IF doc.name[Len(doc.name)] # ""
       THEN <<doc.name[Len(doc.name)]>>
       ELSE <<"doc_">> \o IndexString(fallbackIndex)
  ELSE IF IdFieldOf(doc) # << >> THEN IdFieldOf(doc)
  ELSE <<"doc_">> \o IndexString(fallbackIndex) \o <<"_", "now">>

\* extractDocumentIdFromDocument (the envelopes of runQuery): the id-like
\* fields are looked up among the wire fields.
extractDocumentIdFromDocument(doc, fallbackIndex) ==
  LET viaField(k) ==
        "fields" \in DOMAIN doc /\ k \in DOMAIN doc.fields
          /\ "stringValue" \in DOMAIN doc.fields[k]
          /\ doc.fields[k].stringValue # << >>
      present(k) == "fields" \in DOMAIN doc /\ k \in DOMAIN doc.fields
      idKey == IF present("id") THEN "id"
               ELSE IF present("_id") THEN "_id" ELSE "ID"
  IN  IF HasName(doc)
      THEN IF doc.name[Len(doc.name)] # ""
           THEN <<doc.name[Len(doc.name)]>>
           ELSE <<"doc_">> \o IndexString(fallbackIndex)
      ELSE IF viaField(idKey) THEN doc.fields[idKey].stringValue
      ELSE <<"doc_">> \o IndexString(fallbackIndex) \o <<"_", "now">>

\* QueryDocumentSnapshotImpl over a new DocumentReferenceImpl: the id and
\* path of the reference, whether it was given a parent, and the record.
QueryDocumentSnapshotImpl(docId, hasParent, doc) ==
  [id |-> docId, path |-> CollectionPath \o docId, hasParent |-> hasParent,
   document |-> doc]

\* data() of a snapshot: wire fields are decoded, any other object is cloned.
SnapshotData(snapshot) ==
  IF "fields" \in DOMAIN snapshot.document
  THEN fromBasebaseDocument(snapshot.document)
  ELSE snapshot.document

\* ------------------------------------------------------------------------
\* CollectionReference.get
\* ------------------------------------------------------------------------
CollectionGetResult(outcome, documents) ==
  CASE outcome = "ok" ->
         QuerySnapshotImpl(
           [i \in DOMAIN documents |->
              QueryDocumentSnapshotImpl(
                extractDocumentId(documents[i], i - 1), TRUE, documents[i])])
    [] outcome = "okEmpty" -> ThrownTypeError
    [] httpErrorCode(outcome) = NOT_FOUND -> QuerySnapshotImpl(<< >>)
    [] OTHER -> ThrownError(httpErrorCode(outcome))

\* A call whose first step is one authorised request.
SendFirst(c, request, waitAt) ==
  /\ pc = "idle"
  /\ token' = tokenAfterAuthHeader
  /\ IF authHeaderOk
     THEN /\ sent' = <<request>>
          /\ pc' = waitAt
          /\ call' = c
          /\ result' = NoResult
     ELSE /\ sent' = << >>
          /\ pc' = "done"
          /\ call' = Ended(c)
          /\ result' = ThrownError(UNAUTHENTICATED)
  /\ UNCHANGED <<store, requestData, answers, readDoc, raced>>
  /\ UNCHANGED <<previous, builderVars, appVars, utilVars, authVars, singletonVars>>

\* A call ends with the answer to its only request.  Only a 2xx answer with
\* a JSON body carries records.
Receive(waitAt, outcome, body, outcomeResult) ==
  /\ pc = waitAt
  /\ outcome \in HttpOutcomes
  /\ outcome # "ok" => body = << >>
  /\ answers' = Append(answers, Answer(outcome, body))
  /\ result' = outcomeResult
  /\ pc' = "done"
  /\ call' = Ended(call)
  /\ UNCHANGED <<store, token, requestData, sent, readDoc, raced>>
  /\ UNCHANGED <<previous, builderVars, appVars, utilVars, authVars, singletonVars>>

CollGet_Call ==
  SendFirst([NoCall EXCEPT !.op = "collectionGet"],
            HttpRequest("GET", CollectionTarget, EmptyObject), "list_wait")

CollGet_Response(outcome, documents) ==
  Receive("list_wait", outcome, documents, CollectionGetResult(outcome, documents))

\* ------------------------------------------------------------------------
\* DocumentReference.update / delete, CollectionReference.add
\* ------------------------------------------------------------------------
\* A call whose only request writes: the remote applies the write or not,
\* and the call ends with the answer.
ReceiveWrite(waitAt, outcome, applied, written, body, outcomeResult) ==
  /\ pc = waitAt
  /\ outcome \in HttpOutcomes
  /\ PutApplied(outcome, applied)
  /\ answers' = Append(answers, Answer(outcome, body))
  /\ store' = IF applied THEN written ELSE store
  /\ result' = outcomeResult
  /\ pc' = "done"
  /\ call' = Ended(call)
  /\ UNCHANGED <<token, requestData, sent, readDoc, raced>>
  /\ UNCHANGED <<previous, builderVars, appVars, utilVars, authVars, singletonVars>>

\* A call that throws on its argument before it sends anything.
RejectArgument(c) ==
  /\ pc = "idle"
  /\ pc' = "done"
  /\ call' = Ended(c)
  /\ result' = ThrownError(INVALID_ARGUMENT)
  /\ UNCHANGED <<store, token, requestData, sent, answers, readDoc, raced>>
  /\ UNCHANGED <<previous, builderVars, appVars, utilVars, authVars, singletonVars>>

\* What a write returns or throws when its request ends with the outcome.
WriteOutcomeResult(outcome) ==
  IF outcome \in HttpSuccess THEN WriteResult
  ELSE ThrownError(httpErrorCode(outcome))

\* The document after the remote has applied a PATCH of the fields.
Patched(fields) ==
  [exists |-> TRUE,
   fields |-> [k \in DOMAIN store.fields \cup DOMAIN fields |->
                 IF k \in DOMAIN fields THEN fields[k] ELSE store.fields[k]]]

Update_Call(isObject, data) ==
  LET c == [NoCall EXCEPT !.op = "update", !.data = data]
  IN  IF ~isObject THEN RejectArgument(c)
      ELSE SendFirst(c, HttpRequest("PATCH", DocumentTarget, data), "update_wait")

\* An update() that sends its request again when the remote is unavailable.
Update_ResponseRetrying(outcome, applied) ==
  IF outcome = "s503" /\ Len(sent) < 2
  THEN /\ pc = "update_wait"
       /\ ~applied
       /\ answers' = Append(answers, Answer(outcome, << >>))
       /\ sent' = Append(sent, sent[1])
       /\ UNCHANGED <<store, token, pc, call, requestData, result, readDoc, raced>>
       /\ UNCHANGED <<previous, builderVars, appVars, utilVars, authVars, singletonVars>>
  ELSE ReceiveWrite("update_wait", outcome, applied, Patched(sent[1].fields), << >>,
                    WriteOutcomeResult(outcome))

Update_Response(outcome, applied) ==
  ReceiveWrite("update_wait", outcome, applied, Patched(sent[1].fields), << >>,
               WriteOutcomeResult(outcome))

\* The answers the remote can give to a DELETE: it reports NotFound only for
\* a document that is not there.
DocumentDeleteOutcomes ==
  (HttpOutcomes \ {"s404"}) \cup (IF store.exists THEN {} ELSE {"s404"})

Delete_Call ==
  SendFirst([NoCall EXCEPT !.op = "delete"],
            HttpRequest("DELETE", DocumentTarget, EmptyObject),
            "delete_wait")

Delete_Response(outcome, applied) ==
  /\ outcome \in DocumentDeleteOutcomes
  /\ ReceiveWrite("delete_wait", outcome, applied, NoDocument, << >>,
                  WriteOutcomeResult(outcome))

\* add(): the reference made from the id of the record the remote answers
\* with (an empty object when the body is empty).
DocumentReferenceImpl(id) ==
  [NoResult EXCEPT !.kind = "documentReference", !.id = id]

AddResult(outcome, response) ==
  CASE outcome = "ok" -> DocumentReferenceImpl(extractDocumentId(response, 0))
    [] outcome = "okEmpty" -> DocumentReferenceImpl(extractDocumentId(EmptyObject, 0))
    [] OTHER -> ThrownError(httpErrorCode(outcome))

\* The records the remote may answer a POST with: the created document
\* under its resource name, or its fields alone.
AddedRecords(fields) ==
  { [name |-> <<"projects", "proj", "documents", "users", "d2">>, fields |-> fields],
    [fields |-> fields] }

Add_Call(isObject, data) ==
  LET c == [NoCall EXCEPT !.op = "add", !.data = data]
  IN  IF ~isObject THEN RejectArgument(c)
      ELSE SendFirst(c, HttpRequest("POST", CollectionTarget, data), "add_wait")

\* The created document is another one than the document of the store.
Add_Response(outcome, response) ==
  /\ pc = "add_wait"
  /\ IF outcome = "ok" THEN response \in AddedRecords(sent[1].fields)
     ELSE response = EmptyObject
  /\ Receive("add_wait", outcome, IF outcome = "ok" THEN <<response>> ELSE << >>,
             AddResult(outcome, response))

\* ------------------------------------------------------------------------
\* Query constraints and the structured query (buildStructuredQuery)
\* ------------------------------------------------------------------------
\* A field path is the sequence of the segments between its dots.
WhereConstraint(fieldPath, opStr, value) ==
  [type |-> "where", fieldPath |-> fieldPath, opStr |-> opStr, value |-> value]
OrderByConstraint(fieldPath, directionStr) ==
  [type |-> "orderBy", fieldPath |-> fieldPath, directionStr |-> directionStr]
LimitConstraint(n) == [type |-> "limit", limit |-> n]

whereConstraintsOf(constraints) == SelectSeq(constraints, LAMBDA c : c.type = "where")
orderByConstraintsOf(constraints) == SelectSeq(constraints, LAMBDA c : c.type = "orderBy")
limitConstraintsOf(constraints) == SelectSeq(constraints, LAMBDA c : c.type = "limit")

mapOperatorToFirestore(op) ==
  CASE op = "==" -> "EQUAL"
    [] op = "!=" -> "NOT_EQUAL"
    [] op = "<"  -> "LESS_THAN"
    [] op = "<=" -> "LESS_THAN_OR_EQUAL"
    [] op = ">"  -> "GREATER_THAN"
    [] op = ">=" -> "GREATER_THAN_OR_EQUAL"
    [] op = "array-contains" -> "ARRAY_CONTAINS"
    [] op = "in" -> "IN"
    [] op = "not-in" -> "NOT_IN"
    [] op = "array-contains-any" -> "ARRAY_CONTAINS_ANY"
    [] op = "matches" -> "MATCHES"
    [] OTHER -> op

buildFieldFilter(constraint) ==
  [field |-> [fieldPath |-> constraint.fieldPath],
   op |-> mapOperatorToFirestore(constraint.opStr),
   value |-> toBasebaseValue(constraint.value)]

\* A buildOrderBy that forgets the direction.
buildOrderByAscending(constraint) ==
  [field |-> [fieldPath |-> constraint.fieldPath], direction |-> "ASCENDING"]

buildOrderBy(constraint) ==
  [field |-> [fieldPath |-> constraint.fieldPath],
   direction |-> IF constraint.directionStr = "desc" THEN "DESCENDING" ELSE "ASCENDING"]

\* The request has a where, an orderBy and a limit property only when the
\* code assigns one.
buildStructuredQuery(collectionPath, constraints) ==
  LET wheres == whereConstraintsOf(constraints)
      orders == orderByConstraintsOf(constraints)
      limits == limitConstraintsOf(constraints)
      from == [from |-> <<[collectionId |-> collectionPath[Len(collectionPath)],
                           allDescendants |-> FALSE]>>]
      where == IF Len(wheres) = 0 THEN << >>
               ELSE IF Len(wheres) = 1
               THEN [where |-> [fieldFilter |-> buildFieldFilter(wheres[1])]]
               ELSE [where |->
                       [compositeFilter |->
                          [op |-> "AND",
                           filters |-> [i \in DOMAIN wheres |->
                                          [fieldFilter |-> buildFieldFilter(wheres[i])]]]]]
      orderBy == IF Len(orders) > 0
                 THEN [orderBy |-> [i \in DOMAIN orders |-> buildOrderBy(orders[i])]]
                 ELSE << >>
      limit == IF Len(limits) > 0 THEN [limit |-> limits[1].limit] ELSE << >>
  IN  from @@ where @@ orderBy @@ limit

RunQueryRequest(constraints) ==
  [method |-> "POST", target |-> RunQueryTarget,
   structuredQuery |-> buildStructuredQuery(CollectionPath, constraints)]

\* ------------------------------------------------------------------------
\* Query.get, structured-query module
\* ------------------------------------------------------------------------
\* An envelope of a runQuery answer wraps a record or nothing.
Envelope(doc) == [document |-> doc]
EmptyEnvelope == [readTime |-> "t"]

\* executeStructuredQuery: the records of the envelopes that carry one, in
\* the order of the answer.
StructuredQueryResult(outcome, envelopes) ==
  LET documents == SelectSeq(envelopes, LAMBDA item : "document" \in DOMAIN item)
  IN  CASE outcome = "ok" ->
             QuerySnapshotImpl(
               [i \in DOMAIN documents |->
                  QueryDocumentSnapshotImpl(
                    extractDocumentIdFromDocument(documents[i].document, i - 1),
                    FALSE, documents[i].document)])
        [] outcome = "okEmpty" -> ThrownTypeError
        [] httpErrorCode(outcome) = NOT_FOUND -> QuerySnapshotImpl(<< >>)
        [] OTHER -> ThrownError(httpErrorCode(outcome))

\* The list endpoint, used when the query has no constraint.
QueryListResult(outcome, documents) ==
  CASE outcome = "ok" ->
         QuerySnapshotImpl(
           [i \in DOMAIN documents |->
              QueryDocumentSnapshotImpl(
                queryExtractDocumentId(documents[i], i - 1), FALSE, documents[i])])
    [] outcome = "okEmpty" -> QuerySnapshotImpl(<< >>)
    [] httpErrorCode(outcome) = NOT_FOUND -> QuerySnapshotImpl(<< >>)
    [] OTHER -> ThrownError(httpErrorCode(outcome))

\* A Query.get that always takes the list endpoint.
QueryGet_CallListOnly(constraints) ==
  SendFirst([NoCall EXCEPT !.op = "queryGet", !.constraints = constraints],
            HttpRequest("GET", CollectionTarget, EmptyObject), "query_list_wait")

QueryGet_Call(constraints) ==
  LET c == [NoCall EXCEPT !.op = "queryGet", !.constraints = constraints]
  IN  IF Len(constraints) > 0
      THEN SendFirst(c, RunQueryRequest(constraints), "query_run_wait")
      ELSE SendFirst(c, HttpRequest("GET", CollectionTarget, EmptyObject),
                     "query_list_wait")

QueryGet_ListResponse(outcome, documents) ==
  Receive("query_list_wait", outcome, documents, QueryListResult(outcome, documents))

QueryGet_RunQueryResponse(outcome, envelopes) ==
  Receive("query_run_wait", outcome, envelopes, StructuredQueryResult(outcome, envelopes))

\* ------------------------------------------------------------------------
\* Client-side evaluation (the query module without structured queries)
\* ------------------------------------------------------------------------
Undefined == [undef |-> TRUE]
IsNullish(v) == "undef" \in DOMAIN v \/ "nullv" \in DOMAIN v

\* getFieldValue: walks the segments of the field path through the record.
RECURSIVE getFieldValueFrom(_, _, _)
getFieldValueFrom(current, pathSegments, i) ==
  IF i > Len(pathSegments) THEN current
  ELSE LET isObject == "obj" \in DOMAIN current
           next == IF isObject /\ pathSegments[i] \in DOMAIN current.obj
                   THEN current.obj[pathSegments[i]] ELSE Undefined
       IN  IF ~Truthy(current) \/ "undef" \in DOMAIN next THEN Undefined
           ELSE getFieldValueFrom(next, pathSegments, i + 1)

getFieldValue(doc, fieldPath) == getFieldValueFrom([obj |-> doc], fieldPath, 1)

\* The collation order of the characters of the modelled strings.
CollationOrder ==
  <<"-", "0", "1", "2", "3", "4", "5", "6", "7", "8", "9",
    "a", "b", "c", "d", "e", "f", "g", "h", "i", "j", "k", "l", "m",
    "n", "o", "p", "q", "r", "s", "t", "u", "v", "w", "x", "y", "z">>

CharRank(c) == CHOOSE i \in DOMAIN CollationOrder : CollationOrder[i] = c

RECURSIVE compareStringsFrom(_, _, _)
compareStringsFrom(x, y, i) ==
  IF i > Len(x) /\ i > Len(y) THEN 0
  ELSE IF i > Len(x) THEN -1
  ELSE IF i > Len(y) THEN 1
  ELSE IF CharRank(x[i]) < CharRank(y[i]) THEN -1
  ELSE IF CharRank(x[i]) > CharRank(y[i]) THEN 1
  ELSE compareStringsFrom(x, y, i + 1)

\* String.prototype.localeCompare on the modelled strings.
localeCompare(x, y) == compareStringsFrom(x, y, 1)

\* String(v) of a primitive.
ToStringJS(v) ==
  CASE "str"   \in DOMAIN v -> v.str
    [] "num"   \in DOMAIN v -> NumberToString(v.num)
    [] "bool"  \in DOMAIN v ->
         IF v.bool THEN <<"t", "r", "u", "e">> ELSE <<"f", "a", "l", "s", "e">>
    [] "nullv" \in DOMAIN v -> <<"n", "u", "l", "l">>
    [] OTHER -> <<"u", "n", "d", "e", "f", "i", "n", "e", "d">>

\* a === b on primitives.
StrictEquals(x, y) == x = y /\ "nan" \notin DOMAIN x

\* QueryImpl.compareValues; the sign of a difference stands for the difference.
compareValues(x, y) ==
  IF StrictEquals(x, y) THEN 0
  ELSE IF IsNullish(x) THEN -1
  ELSE IF IsNullish(y) THEN 1
  ELSE IF "num" \in DOMAIN x /\ "num" \in DOMAIN y
       THEN (IF x.num < y.num THEN -1 ELSE IF x.num > y.num THEN 1 ELSE 0)
  ELSE IF "str" \in DOMAIN x /\ "str" \in DOMAIN y THEN localeCompare(x.str, y.str)
  ELSE IF "bool" \in DOMAIN x /\ "bool" \in DOMAIN y
       THEN (IF x.bool = y.bool THEN 0 ELSE IF x.bool THEN 1 ELSE -1)
  ELSE localeCompare(ToStringJS(x), ToStringJS(y))

\* The comparator that applyOrderByConstraints hands to Array.prototype.sort.
RECURSIVE compareDocumentsFrom(_, _, _, _)
compareDocumentsFrom(x, y, orders, i) ==
  IF i > Len(orders) THEN 0
  ELSE LET comparison == compareValues(getFieldValue(x, orders[i].fieldPath),
                                       getFieldValue(y, orders[i].fieldPath))
       IN  IF comparison # 0
           THEN (IF orders[i].directionStr = "desc" THEN -comparison ELSE comparison)
           ELSE compareDocumentsFrom(x, y, orders, i + 1)

compareDocuments(x, y, orders) == compareDocumentsFrom(x, y, orders, 1)

\* ToNumber of a primitive: a number, or NaN.
ToNumberJS(v) ==
  CASE "num"   \in DOMAIN v -> v
    [] "dbl"   \in DOMAIN v -> v
    [] "nullv" \in DOMAIN v -> [num |-> 0]
    [] "bool"  \in DOMAIN v -> [num |-> IF v.bool THEN 1 ELSE 0]
    [] "str"   \in DOMAIN v ->
         IF v.str = << >> THEN [num |-> 0]
         ELSE IF \A i \in DOMAIN v.str :
                   IsDigit(v.str[i]) \/ (i = 1 /\ v.str[i] = "-" /\ Len(v.str) > 1)
              THEN ParseInt(v.str)
              ELSE [nan |-> TRUE]
    [] OTHER -> [nan |-> TRUE]

\* A number that is not NaN, and twice its value.
IsFinite(n) == "num" \in DOMAIN n \/ "dbl" \in DOMAIN n
Twice(n) == IF "num" \in DOMAIN n THEN 2 * n.num ELSE n.dbl

\* x < y of JavaScript on primitives: two strings by their characters, any
\* other pair as numbers; a comparison with NaN is false.
LessThanJS(x, y) ==
  IF "str" \in DOMAIN x /\ "str" \in DOMAIN y
  THEN compareStringsFrom(x.str, y.str, 1) < 0
  ELSE LET nx == ToNumberJS(x)
           ny == ToNumberJS(y)
       IN  IsFinite(nx) /\ IsFinite(ny) /\ Twice(nx) < Twice(ny)

LessOrEqualJS(x, y) ==
  IF "str" \in DOMAIN x /\ "str" \in DOMAIN y
  THEN compareStringsFrom(x.str, y.str, 1) <= 0
  ELSE LET nx == ToNumberJS(x)
           ny == ToNumberJS(y)
       IN  IsFinite(nx) /\ IsFinite(ny) /\ Twice(nx) <= Twice(ny)

\* Array.prototype.includes.
Includes(array, v) == \E i \in DOMAIN array : array[i] = v

ClientSideOperators ==
  { "==", "!=", "<", "<=", ">", ">=", "array-contains", "in", "not-in",
    "array-contains-any" }

\* evaluateWhereCondition of the client-side module, for an operator it knows.
evaluateWhereCondition(fieldValue, operator, queryValue) ==
  CASE operator = "==" -> StrictEquals(fieldValue, queryValue)
    [] operator = "!=" -> ~StrictEquals(fieldValue, queryValue)
    [] operator = "<"  -> LessThanJS(fieldValue, queryValue)
    [] operator = "<=" -> LessOrEqualJS(fieldValue, queryValue)
    [] operator = ">"  -> LessThanJS(queryValue, fieldValue)
    [] operator = ">=" -> LessOrEqualJS(queryValue, fieldValue)
    [] operator = "array-contains" ->
         "arr" \in DOMAIN fieldValue /\ Includes(fieldValue.arr, queryValue)
    [] operator = "in" ->
         "arr" \in DOMAIN queryValue /\ Includes(queryValue.arr, fieldValue)
    [] operator = "not-in" ->
         "arr" \in DOMAIN queryValue /\ ~Includes(queryValue.arr, fieldValue)
    [] operator = "array-contains-any" ->
         /\ "arr" \in DOMAIN fieldValue
         /\ "arr" \in DOMAIN queryValue
         /\ \E i \in DOMAIN queryValue.arr : Includes(fieldValue.arr, queryValue.arr[i])
    [] OTHER -> FALSE

applyWhereConstraint(documents, constraint) ==
  SelectSeq(documents,
            LAMBDA doc : evaluateWhereCondition(getFieldValue(doc, constraint.fieldPath),
                                                constraint.opStr, constraint.value))

\* The where constraints are applied one after the other; the filter of an
\* operator the module does not know throws on the first document it is given.
RECURSIVE applyWhereConstraintsFrom(_, _, _)
applyWhereConstraintsFrom(documents, wheres, i) ==
  IF i > Len(wheres) THEN [threw |-> FALSE, documents |-> documents]
  ELSE IF wheres[i].opStr \notin ClientSideOperators /\ Len(documents) > 0
  THEN [threw |-> TRUE, documents |-> << >>]
  ELSE applyWhereConstraintsFrom(applyWhereConstraint(documents, wheres[i]), wheres, i + 1)

\* Array.prototype.sort with the comparator: a stable sort when the
\* comparator is consistent on the elements, an order the engine chooses
\* when it is not.
ConsistentComparator(documents, orders) ==
  LET S == { documents[i] : i \in DOMAIN documents }
      cmp(x, y) == compareDocuments(x, y, orders)
  IN  /\ \A x \in S : cmp(x, x) = 0
      /\ \A x, y \in S : /\ cmp(x, y) = 0 => cmp(y, x) = 0
                         /\ cmp(x, y) < 0 => cmp(y, x) > 0
      /\ \A x, y, z \in S :
           /\ cmp(x, y) = 0 /\ cmp(y, z) = 0 => cmp(x, z) = 0
           /\ cmp(x, y) < 0 /\ cmp(y, z) < 0 => cmp(x, z) < 0
           /\ cmp(x, y) > 0 /\ cmp(y, z) > 0 => cmp(x, z) > 0
           /\ cmp(x, y) = 0 /\ cmp(y, z) < 0 => cmp(x, z) < 0
           /\ cmp(x, y) < 0 /\ cmp(y, z) = 0 => cmp(x, z) < 0

RECURSIVE insertSorted(_, _, _)
insertSorted(sorted, doc, orders) ==
  IF sorted = << >> THEN <<doc>>
  ELSE IF compareDocuments(sorted[Len(sorted)], doc, orders) > 0
  THEN Append(insertSorted(SubSeq(sorted, 1, Len(sorted) - 1), doc, orders),
              sorted[Len(sorted)])
  ELSE Append(sorted, doc)

RECURSIVE stableSortFrom(_, _, _, _)
stableSortFrom(documents, orders, i, sorted) ==
  IF i > Len(documents) THEN sorted
  ELSE stableSortFrom(documents, orders, i + 1, insertSorted(sorted, documents[i], orders))

PermutationsOf(documents) ==
  { [i \in DOMAIN documents |-> documents[p[i]]] :
      p \in { q \in [DOMAIN documents -> DOMAIN documents] :
                \A i, j \in DOMAIN documents : q[i] = q[j] => i = j } }

applyOrderByConstraints(documents, orders) ==
  IF ConsistentComparator(documents, orders)
  THEN { stableSortFrom(documents, orders, 1, << >>) }
  ELSE PermutationsOf(documents)

\* applyClientSideConstraints: the results the call can produce.
applyClientSideConstraints(documents, constraints) ==
  LET filtered == applyWhereConstraintsFrom(documents, whereConstraintsOf(constraints), 1)
      orders == orderByConstraintsOf(constraints)
      limits == limitConstraintsOf(constraints)
      ordered == IF Len(orders) > 0
                 THEN applyOrderByConstraints(filtered.documents, orders)
                 ELSE { filtered.documents }
      slice(d) == IF Len(limits) > 0 /\ limits[1].limit.num < Len(d)
                  THEN SubSeq(d, 1, limits[1].limit.num) ELSE d
  IN  IF filtered.threw THEN { [threw |-> TRUE, documents |-> << >>] }
      ELSE { [threw |-> FALSE, documents |-> slice(d)] : d \in ordered }

\* Query.get of the client-side module: always the list endpoint.
ClientSideQueryResult(outcome, applied) ==
  CASE outcome \in HttpSuccess ->
         IF applied.threw THEN ThrownError(INVALID_ARGUMENT)
         ELSE QuerySnapshotImpl(
                [i \in DOMAIN applied.documents |->
                   QueryDocumentSnapshotImpl(
                     queryExtractDocumentId(applied.documents[i], i - 1), FALSE,
                     applied.documents[i])])
    [] httpErrorCode(outcome) = NOT_FOUND -> QuerySnapshotImpl(<< >>)
    [] OTHER -> ThrownError(httpErrorCode(outcome))

ClientQueryGet_Call(constraints) ==
  SendFirst([NoCall EXCEPT !.op = "clientQueryGet", !.constraints = constraints],
            HttpRequest("GET", CollectionTarget, EmptyObject), "client_query_wait")

ClientQueryGet_Response(outcome, documents) ==
  /\ pc = "client_query_wait"
  /\ outcome # "ok" => documents = << >>
  /\ \E applied \in applyClientSideConstraints(documents, call.constraints) :
       Receive("client_query_wait", outcome, documents,
               ClientSideQueryResult(outcome, applied))

\* ------------------------------------------------------------------------
\* Query builder (QueryImpl.where / orderBy / limit, query())
\* ------------------------------------------------------------------------
MaxQueries == 4

QueryImpl(basebase, path, constraints) ==
  [basebase |-> basebase, path |-> path, constraints |-> constraints]

NoBuilderCall ==
  [method |-> "none", receiver |-> 0, constraint |-> << >>, returned |-> 0,
   threw |-> ""]

\* The collection references a query can be made from.
CollectionRefs ==
  { [basebase |-> "db1", path |-> CollectionPath],
    [basebase |-> "db2", path |-> <<"proj", "posts">>] }

\* A builder that pushes the constraint onto the receiver's own list and
\* hands that list to the new query.
pushedQueries(heap, q, constraint) ==
  Append([heap EXCEPT ![q].constraints = Append(@, constraint)],
         QueryImpl(heap[q].basebase, heap[q].path,
                   Append(heap[q].constraints, constraint)))

\* `new QueryImpl(this.basebase, this.path, [...this.constraints, constraint])`:
\* the objects that exist after the call; the new one is the last.
derivedQueries(heap, q, constraint) ==
  Append(heap, QueryImpl(heap[q].basebase, heap[q].path,
                         Append(heap[q].constraints, constraint)))

\* query(collection, ...queryConstraints)
query(collection, queryConstraints) ==
  /\ Len(queries) < MaxQueries
  /\ queries' = Append(queries, QueryImpl(collection.basebase, collection.path,
                                          queryConstraints))
  /\ builderCall' = [NoBuilderCall EXCEPT !.method = "query",
                                          !.returned = Len(queries) + 1]
  /\ UNCHANGED <<docVars, appVars, utilVars, authVars, singletonVars>>

Derive(method, q, constraint) ==
  /\ Len(queries) < MaxQueries
  /\ q \in DOMAIN queries
  /\ queries' = derivedQueries(queries, q, constraint)
  /\ builderCall' = [NoBuilderCall EXCEPT !.method = method, !.receiver = q,
                                          !.constraint = constraint,
                                          !.returned = Len(queries) + 1]
  /\ UNCHANGED <<docVars, appVars, utilVars, authVars, singletonVars>>

Query_where(q, fieldPath, opStr, value) ==
  Derive("where", q, WhereConstraint(fieldPath, opStr, value))

Query_orderBy(q, fieldPath, directionStr) ==
  Derive("orderBy", q, OrderByConstraint(fieldPath, directionStr))

\* The count is a JavaScript number.
Query_limit(q, limit) ==
  IF LessOrEqualJS(limit, [num |-> 0])
  THEN /\ q \in DOMAIN queries
       /\ builderCall' = [NoBuilderCall EXCEPT !.method = "limit", !.receiver = q,
                                               !.constraint = LimitConstraint(limit),
                                               !.threw = INVALID_ARGUMENT]
       /\ UNCHANGED <<queries, docVars, appVars, utilVars, authVars, singletonVars>>
  ELSE Derive("limit", q, LimitConstraint(limit))

\* --- Constraint factories (where, orderBy, limit) ---
\* The empty string as a field path: no dot, one segment without characters.
EmptyString == <<"">>

\* Number.isInteger
IsInteger(n) == "num" \in DOMAIN n \/ "big" \in DOMAIN n

\* What a factory throws for a constraint made of its arguments ("" when it
\* returns that constraint).
FactoryThrows(constraint) ==
  CASE constraint.type = "where" ->
         IF constraint.fieldPath = EmptyString THEN INVALID_ARGUMENT ELSE ""
    [] constraint.type = "orderBy" ->
         IF constraint.fieldPath = EmptyString THEN INVALID_ARGUMENT
         ELSE IF constraint.directionStr # "asc" /\ constraint.directionStr # "desc"
              THEN INVALID_ARGUMENT
              ELSE ""
    [] constraint.type = "limit" ->
         IF ~IsInteger(constraint.limit) \/ LessOrEqualJS(constraint.limit, [num |-> 0])
         THEN INVALID_ARGUMENT
         ELSE ""

\* A factory call: builderCall keeps the constraint made of the arguments
\* and what was thrown; no query is touched.
Factory(method, constraint) ==
  /\ builderCall' = [NoBuilderCall EXCEPT !.method = method,
                                          !.constraint = constraint,
                                          !.threw = FactoryThrows(constraint)]
  /\ UNCHANGED <<queries, docVars, appVars, utilVars, authVars, singletonVars>>

Factory_where(fieldPath, opStr, value) ==
  Factory("whereFactory", WhereConstraint(fieldPath, opStr, value))

Factory_orderBy(fieldPath, directionStr) ==
  Factory("orderByFactory", OrderByConstraint(fieldPath, directionStr))

Factory_limit(limitValue) ==
  Factory("limitFactory", LimitConstraint(limitValue))

\* ------------------------------------------------------------------------
\* Authentication (auth.ts): token storage, verifyCode, signOut, listeners,
\* getAuthHeader; getDatabase (app.ts)
\* ------------------------------------------------------------------------
MaxListeners == 2
MaxHeard == 2
MaxDatabases == 2

Tokens == {"t1", "t2"}
Listeners == 1..MaxListeners

\* No cookie and no localStorage entry ("" stands for an absent entry).
NoStorage == [token |-> "", user |-> "", project |-> ""]

\* directToken and the stored entries, as one value.
AuthStore == [direct |-> directToken, stored |-> authStorage]

StoreAuth(a) == directToken' = a.direct /\ authStorage' = a.stored

setToken(a, t) ==
  IF ~isBrowser THEN [a EXCEPT !.direct = t] ELSE [a EXCEPT !.stored.token = t]

setUser(a, user) == IF ~isBrowser THEN a ELSE [a EXCEPT !.stored.user = user]

setProject(a, project) ==
  IF ~isBrowser THEN a ELSE [a EXCEPT !.stored.project = project]

removeToken(a) ==
  IF ~isBrowser THEN [a EXCEPT !.direct = ""]
  ELSE [direct |-> "", stored |-> NoStorage]

getTokenOf(a) ==
  IF a.direct # "" THEN a.direct
  ELSE IF ~isBrowser THEN ""
  ELSE a.stored.token

getToken == getTokenOf(AuthStore)

getAuthStateOf(a) ==
  LET t == getTokenOf(a)
      user == IF isBrowser THEN a.stored.user ELSE ""
      project == IF isBrowser THEN a.stored.project ELSE ""
  IN  [token |-> t, user |-> user, project |-> project,
       isAuthenticated |-> t # "" /\ user # "" /\ project # ""]

getAuthState == getAuthStateOf(AuthStore)

isTokenExpired(t) == t \in expired

\* validateStoredToken(): an expired stored token is removed.
validateStoredToken(a) ==
  IF getTokenOf(a) # "" /\ isTokenExpired(getTokenOf(a)) THEN removeToken(a) ELSE a

NoAuthCall == [op |-> "none", db |-> 0, bearer |-> "", threw |-> ""]

\* The bodies the remote may give to verifyCode with a 2xx status.
VerifyCodeResponses ==
  { [token |-> t, user |-> "u1", project |-> "p1"] : t \in Tokens \cup {""} }
    \cup { [token |-> "t1", user |-> "", project |-> "p1"],
           [token |-> "t1", user |-> "u1", project |-> ""] }

\* verifyCode(phone, code, projectId): one request; a complete answer is
\* stored.  No listener is called.
verifyCode(hasArguments, outcome, response) ==
  LET threw ==
        CASE ~hasArguments -> INVALID_ARGUMENT
          [] outcome = "okEmpty" -> NETWORK_ERROR
          [] outcome # "ok" -> httpErrorCode(outcome)
          [] response.user = "" \/ response.project = "" -> NETWORK_ERROR
          [] OTHER -> ""
      a == IF threw = "" /\ response.token # ""
           THEN setProject(setUser(setToken(AuthStore, response.token),
                                   response.user),
                           response.project)
           ELSE AuthStore
  IN  /\ StoreAuth(a)
      /\ authCall' = [NoAuthCall EXCEPT !.op = "verifyCode", !.threw = threw]
      /\ UNCHANGED <<isBrowser, expired, authListeners, heard, unsubscribed,
                     databases>>
      /\ UNCHANGED <<docVars, builderVars, appVars, utilVars, singletonVars>>

\* signOut(): removeToken().  No listener is called.
Auth_signOut ==
  /\ StoreAuth(removeToken(AuthStore))
  /\ authCall' = [NoAuthCall EXCEPT !.op = "signOut"]
  /\ UNCHANGED <<isBrowser, expired, authListeners, heard, unsubscribed, databases>>
  /\ UNCHANGED <<docVars, builderVars, appVars, utilVars, singletonVars>>

\* onAuthStateChanged(listener), each registration with a function of its
\* own: the listener is added and called with the current state.
onAuthStateChanged(listener) ==
  /\ listener \notin authListeners \cup unsubscribed
  /\ authListeners' = authListeners \cup {listener}
  /\ heard' = [heard EXCEPT ![listener] = Append(@, getAuthState)]
  /\ authCall' = [NoAuthCall EXCEPT !.op = "onAuthStateChanged"]
  /\ UNCHANGED <<isBrowser, directToken, authStorage, expired, unsubscribed,
                 databases>>
  /\ UNCHANGED <<docVars, builderVars, appVars, utilVars, singletonVars>>

\* The function onAuthStateChanged returned.
Unsubscribe(listener) ==
  /\ listener \in authListeners
  /\ authListeners' = authListeners \ {listener}
  /\ unsubscribed' = unsubscribed \cup {listener}
  /\ authCall' = [NoAuthCall EXCEPT !.op = "unsubscribe"]
  /\ UNCHANGED <<isBrowser, directToken, authStorage, expired, heard, databases>>
  /\ UNCHANGED <<docVars, builderVars, appVars, utilVars, singletonVars>>

\* notifyAuthStateChanged: every listener of authListeners is called.
notifyAuthStateChanged(authState) ==
  [l \in Listeners |->
     IF l \in authListeners THEN Append(heard[l], authState) ELSE heard[l]]

\* The storage event of the window: another tab has signed in or out, which
\* changed the shared entries; the listeners are notified.
StorageEvent(storage) ==
  /\ isBrowser
  /\ storage # authStorage
  /\ \A l \in authListeners : Len(heard[l]) < MaxHeard
  /\ authStorage' = storage
  /\ heard' = notifyAuthStateChanged(
                getAuthStateOf([direct |-> directToken, stored |-> storage]))
  /\ authCall' = [NoAuthCall EXCEPT !.op = "storage"]
  /\ UNCHANGED <<isBrowser, directToken, expired, authListeners, unsubscribed,
                 databases>>
  /\ UNCHANGED <<docVars, builderVars, appVars, utilVars, singletonVars>>

\* Time passes and a token's exp is reached.
TokenExpiry(t) ==
  /\ t \notin expired
  /\ expired' = expired \cup {t}
  /\ UNCHANGED <<isBrowser, directToken, authStorage, authListeners, heard,
                 unsubscribed, databases, authCall>>
  /\ UNCHANGED <<docVars, builderVars, appVars, utilVars, singletonVars>>

\* getDatabase(token): the token becomes directToken and the instance keeps
\* it in app.options.token.
getDatabase(t) ==
  /\ Len(databases) < MaxDatabases
  /\ IF t = ""
     THEN /\ authCall' = [NoAuthCall EXCEPT !.op = "getDatabase",
                                           !.threw = INVALID_ARGUMENT]
          /\ UNCHANGED <<directToken, databases>>
     ELSE /\ directToken' = t
          /\ databases' = Append(databases, t)
          /\ authCall' = [NoAuthCall EXCEPT !.op = "getDatabase",
                                           !.db = Len(databases) + 1]
  /\ UNCHANGED <<isBrowser, authStorage, expired, authListeners, heard, unsubscribed>>
  /\ UNCHANGED <<docVars, builderVars, appVars, utilVars, singletonVars>>

\* getAuthHeader(): what it throws, the token it puts after Bearer, and the
\* store it leaves.
getAuthHeader ==
  LET t == getToken
  IN  IF t = ""
      THEN [threw |-> UNAUTHENTICATED, bearer |-> "", store |-> AuthStore]
      ELSE IF isTokenExpired(t)
      THEN [threw |-> UNAUTHENTICATED, bearer |-> "",
            store |-> removeToken(AuthStore)]
      ELSE [threw |-> "", bearer |-> t, store |-> AuthStore]

\* A request made through a reference of the instance db
\* (makeDocumentRequest): its headers are getAuthHeader().
makeDocumentRequest(db) ==
  /\ db \in DOMAIN databases
  /\ StoreAuth(getAuthHeader.store)
  /\ authCall' = [NoAuthCall EXCEPT !.op = "request", !.db = db,
                                   !.bearer = getAuthHeader.bearer,
                                   !.threw = getAuthHeader.threw]
  /\ UNCHANGED <<isBrowser, expired, authListeners, heard, unsubscribed, databases>>
  /\ UNCHANGED <<docVars, builderVars, appVars, utilVars, singletonVars>>

\* ------------------------------------------------------------------------
\* App registry (initializeApp, deleteApp, getBasebase, clearAllApps)
\* ------------------------------------------------------------------------
MaxApps == 3

\* A Map: its entries in insertion order.
MapHas(m, k) == \E i \in DOMAIN m : m[i].key = k
MapGet(m, k) == m[CHOOSE i \in DOMAIN m : m[i].key = k].value
MapSet(m, k, v) ==
  IF MapHas(m, k)
  THEN [i \in DOMAIN m |-> IF m[i].key = k THEN [key |-> k, value |-> v] ELSE m[i]]
  ELSE Append(m, [key |-> k, value |-> v])
MapDelete(m, k) == SelectSeq(m, LAMBDA e : e.key # k)

DefaultAppName == "[DEFAULT]"
AppNames == {DefaultAppName, "other"}

\* String.prototype.trim on the characters of a string.
RECURSIVE TrimStart(_)
TrimStart(s) == IF Len(s) > 0 /\ s[1] = " " THEN TrimStart(Tail(s)) ELSE s
RECURSIVE TrimEnd(_)
TrimEnd(s) ==
  IF Len(s) > 0 /\ s[Len(s)] = " " THEN TrimEnd(SubSeq(s, 1, Len(s) - 1)) ELSE s
Trim(s) == TrimEnd(TrimStart(s))

\* The configurations a caller may pass: none, or one with this apiKey.
NoConfig == [hasConfig |-> FALSE, apiKey |-> Undefined]
Config(apiKey) == [hasConfig |-> TRUE, apiKey |-> apiKey]
Configs ==
  { NoConfig, Config(Undefined), Config([str |-> << >>]), Config([str |-> <<" ">>]),
    Config([num |-> 1]), Config([str |-> <<"k", " ">>]) }

\* The checks of initializeApp on its configuration.
configAccepted(config) ==
  /\ config.hasConfig
  /\ Truthy(config.apiKey)
  /\ "str" \in DOMAIN config.apiKey
  /\ Trim(config.apiKey.str) # << >>

NoAppCall ==
  [op |-> "none", name |-> "", handle |-> 0, accepted |-> FALSE, result |-> "",
   app |-> 0]

\* An initializeApp that does not look the name up before it registers.
initializeAppUnchecked(config, name) ==
  /\ Len(apps) < MaxApps
  /\ IF ~configAccepted(config)
     THEN /\ appCall' = [NoAppCall EXCEPT !.op = "initializeApp", !.name = name,
                                          !.result = INVALID_ARGUMENT]
          /\ UNCHANGED <<appRegistry, apps>>
     ELSE LET app == [id |-> Len(apps) + 1, name |-> name,
                      options |-> [apiKey |-> Trim(config.apiKey.str)]]
          IN  /\ appRegistry' = MapSet(appRegistry, name, app)
              /\ apps' = Append(apps, app)
              /\ appCall' = [NoAppCall EXCEPT !.op = "initializeApp", !.name = name,
                                              !.accepted = TRUE, !.result = "ok",
                                              !.app = app.id]
  /\ UNCHANGED basebaseRegistry
  /\ UNCHANGED <<docVars, builderVars, utilVars, authVars, singletonVars>>

initializeApp(config, name) ==
  /\ Len(apps) < MaxApps
  /\ IF ~configAccepted(config)
     THEN /\ appCall' = [NoAppCall EXCEPT !.op = "initializeApp", !.name = name,
                                          !.result = INVALID_ARGUMENT]
          /\ UNCHANGED <<appRegistry, apps>>
     ELSE IF MapHas(appRegistry, name)
     THEN /\ appCall' = [NoAppCall EXCEPT !.op = "initializeApp", !.name = name,
                                          !.accepted = TRUE,
                                          !.result = ALREADY_EXISTS]
          /\ UNCHANGED <<appRegistry, apps>>
     ELSE LET app == [id |-> Len(apps) + 1, name |-> name,
                      options |-> [apiKey |-> Trim(config.apiKey.str)]]
          IN  /\ appRegistry' = MapSet(appRegistry, name, app)
              /\ apps' = Append(apps, app)
              /\ appCall' = [NoAppCall EXCEPT !.op = "initializeApp", !.name = name,
                                              !.accepted = TRUE, !.result = "ok",
                                              !.app = app.id]
  /\ UNCHANGED basebaseRegistry
  /\ UNCHANGED <<docVars, builderVars, utilVars, authVars, singletonVars>>

\* deleteApp(app): both registries drop the entry of the app's name.
deleteApp(app) ==
  /\ app \in DOMAIN apps
  /\ appRegistry' = MapDelete(appRegistry, apps[app].name)
  /\ basebaseRegistry' = MapDelete(basebaseRegistry, apps[app].name)
  /\ appCall' = [NoAppCall EXCEPT !.op = "deleteApp", !.name = apps[app].name,
                                  !.result = "ok", !.app = app]
  /\ UNCHANGED apps
  /\ UNCHANGED <<docVars, builderVars, utilVars, authVars, singletonVars>>

\* getBasebase(app), app being any handle the caller holds: the instance
\* cached under the app's name, created from the app when there is none
\* (createBasebaseInstance, which validates the stored token first).
getBasebase(app) ==
  /\ app \in DOMAIN apps
  /\ basebaseRegistry' =
       IF MapHas(basebaseRegistry, apps[app].name) THEN basebaseRegistry
       ELSE MapSet(basebaseRegistry, apps[app].name, [app |-> apps[app]])
  /\ StoreAuth(IF MapHas(basebaseRegistry, apps[app].name) THEN AuthStore
               ELSE validateStoredToken(AuthStore))
  /\ appCall' = [NoAppCall EXCEPT
                   !.op = "getBasebase", !.name = apps[app].name, !.result = "ok",
                   !.handle = app,
                   !.app = IF MapHas(basebaseRegistry, apps[app].name)
                           THEN MapGet(basebaseRegistry, apps[app].name).app.id
                           ELSE app]
  /\ UNCHANGED <<appRegistry, apps>>
  /\ UNCHANGED <<isBrowser, expired, authListeners, heard, unsubscribed, databases,
                 authCall>>
  /\ UNCHANGED <<docVars, builderVars, utilVars, singletonVars>>

clearAllApps ==
  /\ appRegistry' = << >>
  /\ basebaseRegistry' = << >>
  /\ appCall' = [NoAppCall EXCEPT !.op = "clearAllApps", !.result = "ok"]
  /\ UNCHANGED apps
  /\ UNCHANGED <<docVars, builderVars, utilVars, authVars, singletonVars>>

\* ------------------------------------------------------------------------
\* Paths and identifiers (validatePath, validateProjectId, validateDocumentId,
\* resolvePath) and the reference factories doc() and collection()
\* ------------------------------------------------------------------------
\* A path or an identifier is the sequence of its characters.
MaxSegments == 5
ProjectIdMaxLength == 24
DocumentIdMaxLength == 255

Slash == "/"

LowercaseLetters == {"a", "c", "d", "e", "p", "r", "s", "u"}
UppercaseLetters == {"D", "U"}
Digits == { DigitChars[i] : i \in DOMAIN DigitChars }

\* The character class [a-zA-Z0-9_-].
UrlSafe(c) == c \in LowercaseLetters \cup UppercaseLetters \cup Digits \cup {"_", "-"}

\* String.prototype.split("/"): the pieces between the slashes, in order.
SlashPositions(s) == { i \in DOMAIN s : s[i] = Slash }

RECURSIVE Ascending(_)
\* The numbers of a set in ascending order.
Ascending(S) ==
  IF S = {} THEN << >>
  ELSE LET least == CHOOSE x \in S : \A y \in S : x <= y
       IN  <<least>> \o Ascending(S \ {least})

Split(s) ==
  LET cuts == Ascending(SlashPositions(s))
      count == Len(cuts) + 1
  IN  [k \in 1..count |->
         SubSeq(s, IF k = 1 THEN 1 ELSE cuts[k - 1] + 1,
                   IF k = count THEN Len(s) ELSE cuts[k] - 1)]

\* Array.prototype.join("/").
RECURSIVE Join(_)
Join(segments) ==
  IF Len(segments) = 0 THEN << >>
  ELSE IF Len(segments) = 1 THEN segments[1]
  ELSE segments[1] \o <<Slash>> \o Join(Tail(segments))

\* The validators: TRUE when the function returns, FALSE when it throws
\* INVALID_ARGUMENT.
validatePath(path) ==
  /\ path # << >>
  /\ path[1] # Slash
  /\ path[Len(path)] # Slash
  /\ LET segments == Split(path)
     IN  \A k \in DOMAIN segments : segments[k] # << >>

validateDocumentId(id) ==
  /\ id # << >>
  /\ \A i \in DOMAIN id : id[i] # Slash
  /\ Len(id) <= DocumentIdMaxLength
  /\ \A i \in DOMAIN id : UrlSafe(id[i])

validateProjectId(id) ==
  /\ id # << >>
  /\ Len(id) <= ProjectIdMaxLength
  /\ \A i \in DOMAIN id : UrlSafe(id[i])

\* An isAbsolutePath that takes two segments for a qualified path.
isAbsolutePathFromTwo(path) == Len(Split(path)) >= 2

\* isAbsolutePath: three segments or more.
isAbsolutePath(path) == Len(Split(path)) >= 3

\* What a factory gives: a reference, or the code of the error it throws.
NoReference == [kind |-> "none"]
Thrown(c) == [threw |-> c, ref |-> NoReference]
Returned(ref) == [threw |-> "", ref |-> ref]

DocumentReference(path, id, parent) ==
  [kind |-> "document", path |-> path, id |-> id, parent |-> parent]
CollectionReference(path, parent) ==
  LET pathSegments == Split(path)
  IN  [kind |-> "collection", path |-> path, id |-> pathSegments[Len(pathSegments)],
       parent |-> parent]

\* A collection() that does not build the reference of its parent document.
Ref_collectionWithoutParent(path) ==
  IF ~validatePath(path) THEN Thrown(INVALID_ARGUMENT)
  ELSE LET pathSegments == Split(path)
       IN  IF Len(pathSegments) < 2 THEN Thrown(INVALID_ARGUMENT)
           ELSE IF ~validateProjectId(pathSegments[1]) THEN Thrown(INVALID_ARGUMENT)
           ELSE Returned(CollectionReference(path, NoReference))

RECURSIVE Ref_doc(_), Ref_collection(_)

\* doc(db, path)
Ref_doc(path) ==
  IF ~validatePath(path) THEN Thrown(INVALID_ARGUMENT)
  ELSE LET pathSegments == Split(path)
           projectName == pathSegments[1]
           documentId == pathSegments[Len(pathSegments)]
       IN  IF Len(pathSegments) < 3 THEN Thrown(INVALID_ARGUMENT)
           ELSE IF projectName = << >> \/ documentId = << >>
           THEN Thrown(INVALID_ARGUMENT)
           ELSE IF ~validateProjectId(projectName) \/ ~validateDocumentId(documentId)
           THEN Thrown(INVALID_ARGUMENT)
           ELSE LET collectionRef ==
                      Ref_collection(Join(SubSeq(pathSegments, 1, Len(pathSegments) - 1)))
                IN  IF collectionRef.threw # "" THEN collectionRef
                    ELSE Returned(DocumentReference(path, documentId, collectionRef.ref))

\* collection(db, path)
Ref_collection(path) ==
  IF ~validatePath(path) THEN Thrown(INVALID_ARGUMENT)
  ELSE LET pathSegments == Split(path)
           projectName == pathSegments[1]
           collectionName == pathSegments[Len(pathSegments)]
       IN  IF Len(pathSegments) < 2 THEN Thrown(INVALID_ARGUMENT)
           ELSE IF projectName = << >> \/ collectionName = << >>
           THEN Thrown(INVALID_ARGUMENT)
           ELSE IF ~validateProjectId(projectName) THEN Thrown(INVALID_ARGUMENT)
           ELSE IF Len(pathSegments) > 2
           THEN LET parent ==
                      Ref_doc(Join(SubSeq(pathSegments, 1, Len(pathSegments) - 1)))
                IN  IF parent.threw # "" THEN parent
                    ELSE Returned(CollectionReference(path, parent.ref))
           ELSE Returned(CollectionReference(path, NoReference))

\* generateId(): twenty letters and digits drawn at random.
GeneratedIds ==
  { [i \in 1..20 |-> "a"], [i \in 1..20 |-> IF i % 2 = 0 THEN "D" ELSE "7"] }

\* CollectionReferenceImpl.doc(documentId), the generated id being `generated`.
CollectionReference_doc(this, documentId, generated) ==
  LET id == IF documentId # << >> THEN documentId ELSE generated
  IN  IF ~validateDocumentId(id) THEN Thrown(INVALID_ARGUMENT)
      ELSE Returned(DocumentReference(this.path \o <<Slash>> \o id, id, this))

\* resolvePath(defaultProjectId, path): the resolved path, or the error.
resolvePath(defaultProjectId, path) ==
  IF ~validatePath(path) THEN [threw |-> INVALID_ARGUMENT, path |-> << >>]
  ELSE IF isAbsolutePath(path) THEN [threw |-> "", path |-> path]
  ELSE [threw |-> "", path |-> defaultProjectId \o <<Slash>> \o path]

\* A call of a factory or of the resolver: its arguments and, once it has
\* been made, what it gave.
NoRefCall ==
  [op |-> "none", path |-> << >>, project |-> << >>, generated |-> << >>,
   made |-> FALSE, threw |-> "", ref |-> NoReference, resolved |-> << >>]

RefCallOf(op, project, path, generated) ==
  [NoRefCall EXCEPT !.op = op, !.project = project, !.path = path,
                    !.generated = generated]

Call_doc ==
  /\ refCall.op = "doc" /\ ~refCall.made
  /\ LET given == Ref_doc(refCall.path)
     IN  refCall' = [refCall EXCEPT !.made = TRUE, !.threw = given.threw,
                                    !.ref = given.ref]
  /\ UNCHANGED <<codecCall, docVars, builderVars, appVars, authVars, singletonVars>>

Call_collection ==
  /\ refCall.op = "collection" /\ ~refCall.made
  /\ LET given == Ref_collection(refCall.path)
     IN  refCall' = [refCall EXCEPT !.made = TRUE, !.threw = given.threw,
                                    !.ref = given.ref]
  /\ UNCHANGED <<codecCall, docVars, builderVars, appVars, authVars, singletonVars>>

\* this.doc(documentId) on the reference of the collection at refCall.project.
Call_collectionDoc ==
  /\ refCall.op = "collectionDoc" /\ ~refCall.made
  /\ LET this == Ref_collection(refCall.project)
         given == CollectionReference_doc(this.ref, refCall.path, refCall.generated)
     IN  /\ this.threw = ""
         /\ refCall' = [refCall EXCEPT !.made = TRUE, !.threw = given.threw,
                                        !.ref = given.ref]
  /\ UNCHANGED <<codecCall, docVars, builderVars, appVars, authVars, singletonVars>>

Call_resolvePath ==
  /\ refCall.op = "resolvePath" /\ ~refCall.made
  /\ LET given == resolvePath(refCall.project, refCall.path)
     IN  refCall' = [refCall EXCEPT !.made = TRUE, !.threw = given.threw,
                                    !.resolved = given.path]
  /\ UNCHANGED <<codecCall, docVars, builderVars, appVars, authVars, singletonVars>>

\* ------------------------------------------------------------------------
\* The codec applied to a host value
\* ------------------------------------------------------------------------
NoCodecCall ==
  [op |-> "none", value |-> [nullv |-> TRUE], made |-> FALSE,
   wire |-> [nullValue |-> TRUE], decoded |-> [nullv |-> TRUE]]

\* fromBasebaseValue(toBasebaseValue(value))
Codec_RoundTrip ==
  /\ codecCall.op = "roundTrip" /\ ~codecCall.made
  /\ codecCall' = [codecCall EXCEPT
                     !.made = TRUE,
                     !.wire = toBasebaseValue(codecCall.value),
                     !.decoded = fromBasebaseValue(toBasebaseValue(codecCall.value))]
  /\ UNCHANGED <<refCall, docVars, builderVars, appVars, authVars, singletonVars>>

\* The three extractors of a document id applied to one record of a response:
\* CollectionReferenceImpl.extractDocumentId (listing, add response),
\* QueryImpl.extractDocumentId (listing of Query.get) and
\* extractDocumentIdFromDocument (envelope of a structured query).
ExtractOps ==
  {"extractDocumentId", "queryExtractDocumentId", "extractDocumentIdFromDocument"}

Call_extractDocumentId ==
  /\ codecCall.op \in ExtractOps /\ ~codecCall.made
  /\ codecCall' =
       [codecCall EXCEPT
          !.made = TRUE,
          !.id = CASE codecCall.op = "extractDocumentId" ->
                        extractDocumentId(codecCall.doc, codecCall.fallbackIndex)
                   [] codecCall.op = "queryExtractDocumentId" ->
                        queryExtractDocumentId(codecCall.doc, codecCall.fallbackIndex)
                   [] OTHER ->
                        extractDocumentIdFromDocument(codecCall.doc,
                                                      codecCall.fallbackIndex)]
  /\ UNCHANGED <<refCall, docVars, builderVars, appVars, authVars, singletonVars>>

\* compareValues applied to a pair of values, in both orders.
Call_compareValues ==
  /\ codecCall.op = "compareValues" /\ ~codecCall.made
  /\ codecCall' = [codecCall EXCEPT
                     !.made = TRUE,
                     !.forward = compareValues(codecCall.a, codecCall.b),
                     !.backward = compareValues(codecCall.b, codecCall.a)]
  /\ UNCHANGED <<refCall, docVars, builderVars, appVars, authVars, singletonVars>>

\* ------------------------------------------------------------------------
\* Singleton instance (singleton.ts)
\* ------------------------------------------------------------------------
SingletonAppName == "[SINGLETON]"

NoSingletonCall ==
  [op |-> "none", after |-> "none", configured |-> FALSE, threw |-> "",
   instance |-> 0]

\* initializeApp(config, "[SINGLETON]") and then getBasebase(app), as the
\* singleton module calls them: what is thrown, the registries and the token
\* store they leave, and the app of the instance returned.
InitializeSingleton(apiKey) ==
  LET failed(code) ==
        [threw |-> code, registry |-> appRegistry, instances |-> basebaseRegistry,
         created |-> apps, instance |-> 0, store |-> AuthStore]
      app == [id |-> Len(apps) + 1, name |-> SingletonAppName,
              options |-> [apiKey |-> Trim(apiKey.str)]]
      cached == MapHas(basebaseRegistry, SingletonAppName)
  IN  IF ~configAccepted(Config(apiKey)) THEN failed(INVALID_ARGUMENT)
      ELSE IF MapHas(appRegistry, SingletonAppName) THEN failed(ALREADY_EXISTS)
      ELSE [threw |-> "",
            registry |-> MapSet(appRegistry, SingletonAppName, app),
            instances |-> IF cached THEN basebaseRegistry
                          ELSE MapSet(basebaseRegistry, SingletonAppName,
                                      [app |-> app]),
            created |-> Append(apps, app),
            instance |-> IF cached
                         THEN MapGet(basebaseRegistry, SingletonAppName).app.id
                         ELSE app.id,
            store |-> IF cached THEN AuthStore ELSE validateStoredToken(AuthStore)]

ApplySingleton(r) ==
  /\ appRegistry' = r.registry
  /\ basebaseRegistry' = r.instances
  /\ apps' = r.created
  /\ StoreAuth(r.store)

\* The configuration getSingletonBasebase finds: the environment's API key,
\* else the dummy key "authenticated" when a token is stored, else none.
FoundApiKey ==
  IF environmentConfig THEN [str |-> <<"k">>]
  ELSE IF getToken # ""
  THEN [str |-> <<"a", "u", "t", "h", "e", "n", "t", "i", "c", "a", "t", "e", "d">>]
  ELSE Undefined

getSingletonBasebase ==
  /\ singletonInstance # 0 \/ initializationError # "" \/ Len(apps) < MaxApps
  /\ LET this == [NoSingletonCall EXCEPT !.op = "getSingletonBasebase",
                                         !.after = singletonCall.op,
                                         !.configured = FoundApiKey # Undefined]
         r == InitializeSingleton(FoundApiKey)
     IN  IF singletonInstance # 0
         THEN /\ singletonCall' = [this EXCEPT !.instance = singletonInstance]
              /\ UNCHANGED <<singletonInstance, initializationError, appRegistry,
                             basebaseRegistry, apps, directToken, authStorage>>
         ELSE IF initializationError # ""
         THEN /\ singletonCall' = [this EXCEPT !.threw = initializationError]
              /\ UNCHANGED <<singletonInstance, initializationError, appRegistry,
                             basebaseRegistry, apps, directToken, authStorage>>
         ELSE IF FoundApiKey = Undefined
         THEN /\ singletonCall' = [this EXCEPT !.threw = "Error"]
              /\ initializationError' = "Error"
              /\ UNCHANGED <<singletonInstance, appRegistry, basebaseRegistry, apps,
                             directToken, authStorage>>
         ELSE /\ ApplySingleton(r)
              /\ singletonInstance' = r.instance
              /\ initializationError' = r.threw
              /\ singletonCall' = [this EXCEPT !.threw = r.threw,
                                               !.instance = r.instance]
  /\ UNCHANGED <<environmentConfig, appCall>>
  /\ UNCHANGED <<isBrowser, expired, authListeners, heard, unsubscribed, databases,
                 authCall>>
  /\ UNCHANGED <<docVars, builderVars, utilVars>>

\* The configurations a caller may pass to configureSingletonBasebase.
SingletonConfigs ==
  { [apiKey |-> k, token |-> t, projectId |-> p] :
      k \in {Undefined, [str |-> <<"k">>]}, t \in {"", "t1"}, p \in {"", "p1"} }

configureSingletonBasebase(config) ==
  /\ Len(apps) < MaxApps
  /\ LET this == [NoSingletonCall EXCEPT !.op = "configureSingletonBasebase",
                                         !.after = singletonCall.op,
                                         !.configured = TRUE]
         r == InitializeSingleton(config.apiKey)
     IN  IF ~isBrowser /\ (config.token = "" \/ config.projectId = "")
         THEN /\ singletonCall' = [this EXCEPT !.threw = "Error"]
              /\ UNCHANGED <<singletonInstance, initializationError, appRegistry,
                             basebaseRegistry, apps, directToken, authStorage>>
         ELSE IF r.threw # ""
         THEN /\ singletonCall' = [this EXCEPT !.threw = r.threw]
              /\ initializationError' = r.threw
              /\ UNCHANGED <<singletonInstance, appRegistry, basebaseRegistry, apps,
                             directToken, authStorage>>
         ELSE /\ appRegistry' = r.registry
              /\ basebaseRegistry' = r.instances
              /\ apps' = r.created
              /\ StoreAuth(IF ~isBrowser /\ config.token # ""
                           THEN [r.store EXCEPT !.direct = config.token]
                           ELSE r.store)
              /\ singletonInstance' = r.instance
              /\ initializationError' = ""
              /\ singletonCall' = [this EXCEPT !.instance = r.instance]
  /\ UNCHANGED <<environmentConfig, appCall>>
  /\ UNCHANGED <<isBrowser, expired, authListeners, heard, unsubscribed, databases,
                 authCall>>
  /\ UNCHANGED <<docVars, builderVars, utilVars>>

resetSingletonBasebase ==
  /\ singletonInstance' = 0
  /\ initializationError' = ""
  /\ singletonCall' = [NoSingletonCall EXCEPT !.op = "resetSingletonBasebase",
                                              !.after = singletonCall.op]
  /\ UNCHANGED environmentConfig
  /\ UNCHANGED <<docVars, builderVars, appVars, utilVars, authVars>>

\* ------------------------------------------------------------------------
\* Specifications
\* ------------------------------------------------------------------------
DocIdle ==
  /\ store = NoDocument
  /\ pc = "idle"
  /\ call = NoCall
  /\ requestData = EmptyObject
  /\ sent = << >>
  /\ answers = << >>
  /\ result = NoResult
  /\ readDoc = NoDocument
  /\ raced = FALSE
  /\ previous = NoPrevious

UtilIdle == refCall = NoRefCall /\ codecCall = NoCodecCall

AuthIdle ==
  /\ directToken = ""
  /\ authStorage = NoStorage
  /\ expired = {}
  /\ authListeners = {}
  /\ heard = [l \in Listeners |-> << >>]
  /\ unsubscribed = {}
  /\ databases = << >>
  /\ authCall = NoAuthCall

SingletonIdle ==
  /\ singletonInstance = 0
  /\ initializationError = ""
  /\ singletonCall = NoSingletonCall

\* The other modules at rest, in a browser without environment variables.
SessionIdle ==
  /\ AuthIdle /\ isBrowser = TRUE
  /\ SingletonIdle /\ environmentConfig = FALSE

BuilderIdle == queries = << >> /\ builderCall = NoBuilderCall

AppIdle ==
  /\ appRegistry = << >>
  /\ basebaseRegistry = << >>
  /\ apps = << >>
  /\ appCall = NoAppCall

\* --- References of one document and of its collection, several writers ---
\* The constraint lists of the queries run against the store's collection.
StoreConstraintLists ==
  { << >>, <<LimitConstraint([num |-> 1])>>, <<OrderByConstraint(<<"a">>, "asc")>> }

StoreEnvelopes == [i \in DOMAIN StoreListing |-> Envelope(StoreListing[i])]

Init ==
  DocIdle /\ token = "none" /\ BuilderIdle /\ AppIdle /\ UtilIdle /\ SessionIdle

Next ==
  \/ DocGet_Call
  \/ \E outcome \in HttpOutcomes : DocGet_Response(outcome)
  \/ \E isObject \in BOOLEAN, data \in HostDocs, options \in SetOptions :
       DocSet_Call(isObject, data, options)
  \/ \E outcome \in HttpOutcomes : DocSet_ReadResponse(outcome)
  \/ \E outcome \in HttpOutcomes, applied \in BOOLEAN :
       DocSet_WriteResponse(outcome, applied)
  \/ CollGet_Call
  \/ \E outcome \in HttpOutcomes :
       CollGet_Response(outcome, IF outcome = "ok" THEN StoreListing ELSE << >>)
  \/ \E constraints \in StoreConstraintLists : QueryGet_Call(constraints)
  \/ \E outcome \in HttpOutcomes :
       QueryGet_ListResponse(outcome, IF outcome = "ok" THEN StoreListing ELSE << >>)
  \/ \E outcome \in HttpOutcomes :
       QueryGet_RunQueryResponse(outcome,
                                 IF outcome = "ok" THEN StoreEnvelopes ELSE << >>)
  \/ Return
  \/ \E document \in StoredDocuments \cup {NoDocument} : OtherWriter(document)
  \/ TokenStored
  \/ TokenExpires
  \/ signOut

Spec == Init /\ [][Next]_vars

\* --- Queries of a signed-in client against a remote that answers freely ---
MaxConstraints == 3
MaxDocs == 3

\* The records the remote draws its answers from, as host objects.
CatalogData ==
  << [v |-> [nullv |-> TRUE], n |-> [str |-> <<"b">>]],
     [n |-> [str |-> <<"a">>]],
     [v |-> [nullv |-> TRUE], n |-> [str |-> <<"a">>]],
     [v |-> [num |-> 1], n |-> [str |-> <<"b">>]] >>

\* The same records in the tagged-value dialect, with their resource names,
\* and in the plain-JSON dialect, with their id field.
DocumentIds == <<"d1", "d2", "d3", "d4">>
WireRecord(i) ==
  [name |-> <<"projects", "proj", "documents", "users", DocumentIds[i]>>,
   fields |-> toBasebaseFields(CatalogData[i])]
PlainRecord(i) ==
  [k \in DOMAIN CatalogData[i] \cup {"id"} |->
     IF k = "id" THEN [str |-> <<"p">> \o IndexString(i)] ELSE CatalogData[i][k]]

\* Sequences without repetition of at most MaxDocs of the given items.
ListsOf(items) ==
  UNION { { l \in [1..len -> items] : \A i, j \in 1..len : l[i] = l[j] => i = j } :
            len \in 0..MaxDocs }

WireListings == ListsOf({ WireRecord(i) : i \in DOMAIN CatalogData })
PlainListings == ListsOf({ PlainRecord(i) : i \in DOMAIN CatalogData })
EnvelopeLists ==
  ListsOf({ Envelope(WireRecord(i)) : i \in DOMAIN CatalogData } \cup {EmptyEnvelope})

ConstraintUniverse ==
  { WhereConstraint(<<"v">>, "==", [num |-> 1]),
    WhereConstraint(<<"n">>, ">=", [str |-> <<"b">>]),
    OrderByConstraint(<<"v">>, "asc"),
    OrderByConstraint(<<"n">>, "desc"),
    LimitConstraint([num |-> 1]) }

\* Lists of at most MaxConstraints different constraints.
ConstraintLists ==
  UNION { { l \in [1..len -> ConstraintUniverse] :
              \A i, j \in 1..len : l[i] = l[j] => i = j } :
            len \in 0..MaxConstraints }

InitQuery ==
  DocIdle /\ token = "valid" /\ BuilderIdle /\ AppIdle /\ UtilIdle /\ SessionIdle

NextQuery ==
  \/ \E constraints \in ConstraintLists : QueryGet_Call(constraints)
  \/ \E outcome \in HttpOutcomes, documents \in WireListings :
       QueryGet_ListResponse(outcome, documents)
  \/ \E outcome \in HttpOutcomes, envelopes \in EnvelopeLists :
       QueryGet_RunQueryResponse(outcome, envelopes)
  \/ \E constraints \in ConstraintLists : ClientQueryGet_Call(constraints)
  \/ \E outcome \in HttpOutcomes, documents \in PlainListings :
       ClientQueryGet_Response(outcome, documents)
  \/ Return

SpecQuery == InitQuery /\ [][NextQuery]_vars

\* --- Queries of the client-side module on a nested field that some of the
\* fetched documents lack ---
NestedPath == <<"a", "b">>

NestedRecords ==
  { [id |-> [str |-> <<"m", "1">>], a |-> [obj |-> [b |-> [num |-> 1]]]],
    [id |-> [str |-> <<"m", "2">>], a |-> [obj |-> EmptyObject]],
    [id |-> [str |-> <<"m", "3">>]],
    [id |-> [str |-> <<"m", "4">>], a |-> [obj |-> [b |-> [nullv |-> TRUE]]]] }

NestedListings == ListsOf(NestedRecords)

NestedConstraintLists ==
  { <<WhereConstraint(NestedPath, "==", [num |-> 1])>>,
    <<WhereConstraint(NestedPath, "==", [nullv |-> TRUE])>>,
    <<WhereConstraint(NestedPath, "!=", [num |-> 1])>>,
    <<OrderByConstraint(NestedPath, "asc")>>,
    <<OrderByConstraint(NestedPath, "desc")>> }

NextMissing ==
  \/ \E constraints \in NestedConstraintLists : ClientQueryGet_Call(constraints)
  \/ \E outcome \in HttpOutcomes, documents \in NestedListings :
       ClientQueryGet_Response(outcome, documents)
  \/ Return

SpecMissing == InitQuery /\ [][NextMissing]_vars

\* --- Holders of queries that derive new queries ---
BuilderInitialLists == { << >>, <<OrderByConstraint(<<"n">>, "desc")>> }

NextBuilder ==
  \/ \E collection \in CollectionRefs, queryConstraints \in BuilderInitialLists :
       query(collection, queryConstraints)
  \/ \E q \in 1..MaxQueries : Query_where(q, <<"v">>, "==", [num |-> 1])
  \/ \E q \in 1..MaxQueries : Query_orderBy(q, <<"v">>, "asc")
  \/ \E q \in 1..MaxQueries, limit \in {[num |-> 0], [num |-> 1]} :
       Query_limit(q, limit)

SpecBuilder == Init /\ [][NextBuilder]_vars

\* --- Callers that pass any arguments to the factories and the builders ---
WhereArguments ==
  { WhereConstraint(<<"v">>, "==", [num |-> 1]),
    WhereConstraint(EmptyString, "==", [num |-> 1]),
    WhereConstraint(<<"v">>, "in", [num |-> 1]) }

OrderByArguments ==
  { OrderByConstraint(<<"v">>, "asc"),
    OrderByConstraint(<<"v">>, "up") }

LimitArguments ==
  { LimitConstraint([num |-> 1]),
    LimitConstraint([num |-> 0]),
    LimitConstraint([num |-> -1]),
    LimitConstraint([dbl |-> 3]) }

\* The constraints the factories return.
FactoryMade ==
  { c \in WhereArguments \cup OrderByArguments \cup LimitArguments :
      FactoryThrows(c) = "" }

NextConstraints ==
  \/ \E c \in WhereArguments : Factory_where(c.fieldPath, c.opStr, c.value)
  \/ \E c \in OrderByArguments : Factory_orderBy(c.fieldPath, c.directionStr)
  \/ \E c \in LimitArguments : Factory_limit(c.limit)
  \/ \E queryConstraints \in {<< >>} \cup { <<c>> : c \in FactoryMade \cap LimitArguments } :
       query([basebase |-> "db1", path |-> CollectionPath], queryConstraints)
  \/ \E q \in 1..MaxQueries, c \in WhereArguments :
       Query_where(q, c.fieldPath, c.opStr, c.value)
  \/ \E q \in 1..MaxQueries, c \in OrderByArguments :
       Query_orderBy(q, c.fieldPath, c.directionStr)
  \/ \E q \in 1..MaxQueries, c \in LimitArguments : Query_limit(q, c.limit)

SpecConstraints == Init /\ [][NextConstraints]_vars

\* --- Callers of the app module ---
NextApp ==
  \/ \E config \in Configs, name \in AppNames : initializeApp(config, name)
  \/ \E app \in 1..MaxApps : deleteApp(app)
  \/ \E app \in 1..MaxApps : getBasebase(app)
  \/ clearAllApps

SpecApp == Init /\ [][NextApp]_vars

\* --- One caller after another on the references of one document ---
\* The objects the caller writes, and the documents other clients write.
OpsData == { EmptyObject, [a |-> [num |-> 1]], [b |-> [num |-> 1]] }
\* An update of one nested field, the key written with a dot.
DottedData == [k \in {DottedKey} |-> [num |-> 1]]

OpsDocuments ==
  { [exists |-> TRUE, fields |-> toBasebaseFields(d)] : d \in OpsData } \cup {NoDocument}

\* The listing of the collection in the plain-JSON dialect.
PlainStoreListing ==
  IF store.exists
  THEN <<[k \in DOMAIN store.fields \cup {"id"} |->
            IF k = "id" THEN [str |-> <<"d1">>]
            ELSE fromBasebaseValue(store.fields[k])]>>
  ELSE << >>

NextOps ==
  \/ DocGet_Call
  \/ \E outcome \in HttpOutcomes : DocGet_Response(outcome)
  \/ \E isObject \in BOOLEAN, data \in OpsData, options \in SetOptions :
       DocSet_Call(isObject, data, options)
  \/ \E outcome \in HttpOutcomes : DocSet_ReadResponse(outcome)
  \/ \E outcome \in HttpOutcomes, applied \in BOOLEAN :
       DocSet_WriteResponse(outcome, applied)
  \/ \E isObject \in BOOLEAN, data \in OpsData \cup {DottedData} :
       Update_Call(isObject, data)
  \/ \E outcome \in HttpOutcomes, applied \in BOOLEAN : Update_Response(outcome, applied)
  \/ Delete_Call
  \/ \E outcome \in HttpOutcomes, applied \in BOOLEAN : Delete_Response(outcome, applied)
  \/ \E isObject \in BOOLEAN, data \in OpsData : Add_Call(isObject, data)
  \/ \E outcome \in HttpOutcomes, data \in OpsData :
       \E response \in AddedRecords(toBasebaseFields(data)) \cup {EmptyObject} :
         Add_Response(outcome, response)
  \/ CollGet_Call
  \/ \E outcome \in HttpOutcomes :
       CollGet_Response(outcome, IF outcome = "ok" THEN StoreListing ELSE << >>)
  \/ \E constraints \in StoreConstraintLists : QueryGet_Call(constraints)
  \/ \E outcome \in HttpOutcomes :
       QueryGet_ListResponse(outcome, IF outcome = "ok" THEN StoreListing ELSE << >>)
  \/ \E outcome \in HttpOutcomes :
       QueryGet_RunQueryResponse(outcome,
                                 IF outcome = "ok" THEN StoreEnvelopes ELSE << >>)
  \/ \E constraints \in StoreConstraintLists : ClientQueryGet_Call(constraints)
  \/ \E outcome \in HttpOutcomes :
       ClientQueryGet_Response(outcome,
                               IF outcome = "ok" THEN PlainStoreListing ELSE << >>)
  \/ Return
  \/ \E document \in OpsDocuments : OtherWriter(document)
  \/ TokenStored
  \/ TokenExpires
  \/ signOut

SpecOps == Init /\ [][NextOps]_vars

\* --- A caller that writes and deletes one document again and again ---
NextRepeat ==
  \/ \E data \in OpsData :
       DocSet_Call(TRUE, data, [merge |-> FALSE, hasMergeFields |-> FALSE,
                                mergeFields |-> {}])
  \/ \E outcome \in HttpOutcomes, applied \in BOOLEAN :
       DocSet_WriteResponse(outcome, applied)
  \/ Delete_Call
  \/ \E outcome \in HttpOutcomes, applied \in BOOLEAN : Delete_Response(outcome, applied)
  \/ ReturnAndCallAgain
  \/ \E document \in OpsDocuments : OtherWriter(document)
  \/ TokenStored
  \/ TokenExpires

SpecRepeat == Init /\ [][NextRepeat]_vars

\* --- Callers of doc(), collection() and resolvePath() ---
Repeat(c, n) == [i \in 1..n |-> c]

\* Candidates for the first segment of a path, for the collection names and
\* for the document ids: well-formed ones, ones at and over the length limit,
\* ones with a character outside the class, and the empty string.
ProjectSegments ==
  { <<"p">>, Repeat("a", ProjectIdMaxLength), Repeat("a", ProjectIdMaxLength + 1),
    <<"p", "!">>, << >> }
CollectionSegments ==
  { <<"u", "s", "e", "r", "s">>, <<"U", "s", "e", "r", "s">>,
    Repeat("c", DocumentIdMaxLength), Repeat("c", DocumentIdMaxLength + 1), << >> }
DocumentSegments ==
  { <<"d", "1">>, <<"d", "!">>, Repeat("d", DocumentIdMaxLength),
    Repeat("d", DocumentIdMaxLength + 1), << >> }

SegmentsAt(k) ==
  IF k = 1 THEN ProjectSegments
  ELSE IF k % 2 = 0 THEN CollectionSegments ELSE DocumentSegments

\* The paths of at most MaxSegments segments, and the empty path.
SegmentLists ==
  UNION { { l \in [1..len -> ProjectSegments \cup CollectionSegments \cup DocumentSegments] :
              \A k \in 1..len : l[k] \in SegmentsAt(k) } : len \in 0..MaxSegments }
PathInputs == { Join(l) : l \in SegmentLists }

\* Paths that do not name their project: a collection name comes first.
RelativePathInputs ==
  { Join(Tail(l)) : l \in { m \in SegmentLists : Len(m) > 0 } }

\* The calls that callers make.
RefCallInputs ==
  { RefCallOf(op, << >>, path, << >>) : op \in {"doc", "collection"}, path \in PathInputs }
    \cup { RefCallOf("collectionDoc", this, documentId, generated) :
             this \in {<<"p", Slash, "u">>, <<"p", Slash, "u", Slash, "d", Slash, "s">>},
             documentId \in DocumentSegments \cup {<<"d", Slash, "e">>},
             generated \in GeneratedIds }
    \cup { RefCallOf("resolvePath", <<"p">>, path, << >>) :
             path \in PathInputs \cup RelativePathInputs }

InitPaths ==
  /\ DocIdle /\ token = "none" /\ BuilderIdle /\ AppIdle /\ SessionIdle
  /\ codecCall = NoCodecCall
  /\ refCall \in RefCallInputs

NextPaths ==
  \/ Call_doc
  \/ Call_collection
  \/ Call_collectionDoc
  \/ Call_resolvePath

SpecPaths == InitPaths /\ [][NextPaths]_vars

\* --- Callers of the codec ---
MaxDepth == 2

Scalars ==
  { [nullv |-> TRUE], [bool |-> TRUE], [bool |-> FALSE],
    [str |-> << >>], [str |-> <<"a">>], [str |-> <<"1">>],
    [num |-> 0], [num |-> 7], [num |-> -12], [num |-> 1000],
    [dbl |-> 3], [big |-> [digit |-> 1, exponent |-> 21]],
    [date |-> 0], [date |-> 405] }

\* The lists and maps that hold a value, alone or beside a null.
ContainersOf(x) ==
  { [arr |-> <<x>>], [arr |-> <<x, [nullv |-> TRUE]>>],
    [obj |-> [k \in {"a"} |-> x]],
    [obj |-> [k \in {"a", "b"} |-> IF k = "a" THEN x ELSE [nullv |-> TRUE]]] }

RECURSIVE HostValues(_)
\* The host values nested to the depth at most.
HostValues(depth) ==
  IF depth = 0 THEN Scalars
  ELSE Scalars \cup {[arr |-> << >>], [obj |-> EmptyObject]}
         \cup UNION { ContainersOf(x) : x \in HostValues(depth - 1) }

InitCodec ==
  /\ DocIdle /\ token = "none" /\ BuilderIdle /\ AppIdle /\ SessionIdle
  /\ refCall = NoRefCall
  /\ codecCall \in { [NoCodecCall EXCEPT !.op = "roundTrip", !.value = value] :
                       value \in HostValues(MaxDepth) }

NextCodec == Codec_RoundTrip

SpecCodec == InitCodec /\ [][NextCodec]_vars

\* --- Records of a response handed to the id extractors ---
MaxIndex == 1

\* What a record may hold under id, _id or ID.
IdValues ==
  { [str |-> <<"x">>], [str |-> <<"y">>], [str |-> << >>], [num |-> 0], [num |-> 5] }

WireIdValues ==
  { [stringValue |-> <<"x">>], [stringValue |-> <<"y">>], [stringValue |-> << >>],
    [integerValue |-> 5] }

IdKeys == {"id", "_id", "ID"}

\* No name, the empty name, a name ending in an id, a name ending in a slash.
NameParts ==
  { EmptyObject,
    [k \in {"name"} |-> <<"">>],
    [k \in {"name"} |-> <<"projects", "proj", "documents", "users", "d1">>],
    [k \in {"name"} |-> <<"projects", "proj", "documents", "users", "">>] }

ExtractRecords ==
  { n @@ t : n \in NameParts,
             t \in UNION { [K -> IdValues] : K \in SUBSET IdKeys } }
    \cup
  { n @@ [k \in {"fields"} |-> f] :
       n \in NameParts,
       f \in UNION { [K -> WireIdValues] : K \in SUBSET IdKeys } }

InitExtract ==
  /\ DocIdle /\ token = "none" /\ BuilderIdle /\ AppIdle /\ SessionIdle
  /\ refCall = NoRefCall
  /\ codecCall \in { [op |-> op, doc |-> doc, fallbackIndex |-> i,
                       made |-> FALSE, id |-> << >>] :
                       op \in ExtractOps, doc \in ExtractRecords, i \in 0..MaxIndex }

NextExtract == Call_extractDocumentId

SpecExtract == InitExtract /\ [][NextExtract]_vars

\* --- Pairs of values handed to the sort comparator ---
ComparedValues ==
  { Undefined, [nullv |-> TRUE], [bool |-> TRUE], [bool |-> FALSE],
    [num |-> -12], [num |-> 0], [num |-> 7],
    [str |-> << >>], [str |-> <<"a">>], [str |-> <<"b">>], [str |-> <<"1">>] }

InitCompare ==
  /\ DocIdle /\ token = "none" /\ BuilderIdle /\ AppIdle /\ SessionIdle
  /\ refCall = NoRefCall
  /\ codecCall \in { [op |-> "compareValues", a |-> a, b |-> b, made |-> FALSE,
                       forward |-> 0, backward |-> 0] :
                       a \in ComparedValues, b \in ComparedValues }

NextCompare == Call_compareValues

SpecCompare == InitCompare /\ [][NextCompare]_vars

\* --- Callers of the authentication module in a browser ---
\* The entries a sign-in leaves in the storage.
SignedInStorage == { [token |-> t, user |-> "u1", project |-> "p1"] : t \in Tokens }

InitAuth ==
  /\ DocIdle /\ token = "none" /\ BuilderIdle /\ AppIdle /\ UtilIdle
  /\ SessionIdle

NextAuth ==
  \/ \E hasArguments \in BOOLEAN, outcome \in {"ok", "okEmpty", "s401", "timeout"},
        response \in VerifyCodeResponses :
       verifyCode(hasArguments, outcome, response)
  \/ Auth_signOut
  \/ \E listener \in Listeners : onAuthStateChanged(listener)
  \/ \E listener \in Listeners : Unsubscribe(listener)
  \/ \E storage \in SignedInStorage \cup {NoStorage} : StorageEvent(storage)

SpecAuth == InitAuth /\ [][NextAuth]_vars

\* --- A server that makes instances with getDatabase and uses them ---
InitDatabase ==
  /\ DocIdle /\ token = "none" /\ BuilderIdle /\ AppIdle /\ UtilIdle
  /\ AuthIdle /\ isBrowser = FALSE
  /\ SingletonIdle /\ environmentConfig = FALSE

NextDatabase ==
  \/ \E t \in Tokens \cup {""} : getDatabase(t)
  \/ \E db \in 1..MaxDatabases : makeDocumentRequest(db)
  \/ Auth_signOut
  \/ \E t \in Tokens : TokenExpiry(t)

SpecDatabase == InitDatabase /\ [][NextDatabase]_vars

\* --- Callers of the singleton module, signing in and out, deleting apps ---
InitSingleton ==
  /\ DocIdle /\ token = "none" /\ BuilderIdle /\ AppIdle /\ UtilIdle
  /\ AuthIdle /\ isBrowser \in BOOLEAN
  /\ SingletonIdle /\ environmentConfig \in BOOLEAN

NextSingleton ==
  \/ getSingletonBasebase
  \/ \E config \in SingletonConfigs : configureSingletonBasebase(config)
  \/ resetSingletonBasebase
  \/ \E app \in 1..MaxApps : deleteApp(app)
  \/ \E response \in SignedInStorage : verifyCode(TRUE, "ok", response)
  \/ Auth_signOut

SpecSingleton == InitSingleton /\ [][NextSingleton]_vars

\* ------------------------------------------------------------------------
\* Properties of the reference operations (Spec)
\* ------------------------------------------------------------------------
\* The last answer the current call received.
LastAnswer == answers[Len(answers)]

ReadOps == {"get", "collectionGet", "queryGet"}

\* C1: a read whose request fails with NotFound gives an empty snapshot (a
\* document snapshot with exists = false and no data, a query snapshot with
\* no documents); a read whose request fails with any other error throws an
\* error of that same kind.
C1_NotFoundOnReads ==
  (pc = "done" /\ call.op \in ReadOps /\ Len(answers) = 1
     /\ LastAnswer.outcome \notin HttpSuccess) =>
       IF LastAnswer.outcome = "s404"
       THEN IF call.op = "get"
            THEN result.kind = "documentSnapshot" /\ ~result.exists /\ ~result.hasData
            ELSE result.kind = "querySnapshot" /\ Len(result.docs) = 0
       ELSE /\ result.kind = "error"
            /\ result.code = httpErrorCode(LastAnswer.outcome)
            /\ result.code # NOT_FOUND

C1_Witness ==
  /\ pc = "done" /\ call.op = "get" /\ Len(answers) = 1
  /\ LastAnswer.outcome = "s404"
  /\ result.kind = "documentSnapshot" /\ ~result.exists /\ ~result.hasData

\* A set() with merge or mergeFields has read the document (the remote
\* answered with the document or with NotFound) and its PUT is in flight.
MergePutInFlight ==
  /\ pc = "set_write_wait"
  /\ call.op = "set"
  /\ call.merge \/ call.hasMergeFields
  /\ Len(sent) = 2
  /\ answers[1].outcome \in {"ok", "s404"}

\* The host object of the document the PUT in flight carries.
PutDocument == fromBasebaseDocument([fields |-> sent[Len(sent)].fields])

\* The host object of the document the read found.
ExistingData == fromBasebaseDocument([fields |-> readDoc.fields])

\* C2: with no other writer active, set(D, {merge: true}) on an existing
\* document E writes E's fields overridden by D's fields (fields only in E
\* keep E's value, fields of D take D's value); on a missing document it
\* writes exactly D.
C2_MergeWrite ==
  (MergePutInFlight /\ call.merge /\ ~raced) =>
     /\ readDoc = store
     /\ DOMAIN PutDocument =
          (IF store.exists THEN DOMAIN ExistingData ELSE {}) \cup DOMAIN call.data
     /\ \A k \in DOMAIN call.data : PutDocument[k] = call.data[k]
     /\ \A k \in DOMAIN PutDocument \ DOMAIN call.data :
          PutDocument[k] = ExistingData[k]

C2_Witness ==
  /\ MergePutInFlight /\ call.merge /\ ~raced /\ store.exists
  /\ \E k \in DOMAIN ExistingData : k \notin DOMAIN call.data
  /\ \E k \in DOMAIN ExistingData \cap DOMAIN call.data :
       ExistingData[k] # call.data[k] /\ PutDocument[k] = call.data[k]

\* C3: with no other writer active, set(D, {mergeFields: F}) writes, of D's
\* fields, only those named in F, and keeps every existing field not named
\* in F, whether or not the document exists beforehand.
C3_MergeFieldsWrite ==
  (MergePutInFlight /\ ~call.merge /\ call.hasMergeFields /\ ~raced) =>
     /\ DOMAIN PutDocument =
          (IF store.exists THEN DOMAIN ExistingData ELSE {})
             \cup (call.mergeFields \cap DOMAIN call.data)
     /\ \A k \in call.mergeFields \cap DOMAIN call.data :
          PutDocument[k] = call.data[k]
     /\ \A k \in DOMAIN PutDocument \ (call.mergeFields \cap DOMAIN call.data) :
          PutDocument[k] = ExistingData[k]

\* C4: when another writer has written between the read and the PUT of a
\* merge write and the PUT succeeds, the document becomes what the PUT
\* carries, with the values the read found earlier for the fields the data
\* does not name; the call reports success and sends nothing more.
C4_LostUpdate ==
  [][(MergePutInFlight /\ raced /\ pc' = "done"
        /\ answers'[Len(answers')].outcome \in HttpSuccess) =>
       /\ store'.exists
       /\ store'.fields = sent[2].fields
       /\ \A k \in DOMAIN readDoc.fields \ DOMAIN call.data :
            k \in DOMAIN store'.fields /\ store'.fields[k] = readDoc.fields[k]
       /\ \A k \in DOMAIN store'.fields :
            k \in DOMAIN readDoc.fields \cup DOMAIN call.data
       /\ result' = WriteResult
       /\ sent' = sent]_vars

\* The PUT of a merge write is in flight and carries, for a field the data
\* does not name, a value that differs from what another writer has written
\* since the read.
C4_Witness ==
  /\ MergePutInFlight /\ raced /\ store.exists /\ readDoc.exists
  /\ \E k \in DOMAIN store.fields \ DOMAIN call.data :
       /\ k \in DOMAIN sent[2].fields
       /\ sent[2].fields[k] # store.fields[k]
       /\ sent[2].fields[k] = readDoc.fields[k]

QueryWaits == {"query_list_wait", "query_run_wait"}

\* C6 with the credential: a Query.get() started with a usable token sends
\* exactly one request, the list GET when the query has no constraint and
\* the runQuery POST when it has one, and nothing more while it waits; a
\* Query.get() started without a usable token sends no request and fails
\* with Unauthenticated.
C6_StrategyWithCredential ==
  [][/\ (pc = "idle" /\ call'.op = "queryGet") =>
          IF token = "valid"
          THEN /\ Len(sent') = 1
               /\ pc' \in QueryWaits
               /\ IF Len(call'.constraints) = 0
                  THEN sent'[1].method = "GET" /\ sent'[1].target = CollectionTarget
                  ELSE sent'[1].method = "POST" /\ sent'[1].target = RunQueryTarget
          ELSE /\ sent' = << >>
               /\ pc' = "done"
               /\ result' = ThrownError(UNAUTHENTICATED)
     /\ pc \in QueryWaits => sent' = sent]_vars

C6_Witness ==
  /\ pc = "done" /\ call.op = "queryGet" /\ Len(call.constraints) > 0
  /\ Len(answers) = 1
  /\ Len(sent) = 1 /\ sent[1].method = "POST" /\ sent[1].target = RunQueryTarget

\* C6 as claimed: every Query.get() sends exactly one request, the list GET
\* when the query has no constraint and the runQuery POST when it has one.
C6_ExactlyOneRequest ==
  (pc = "done" /\ call.op = "queryGet") =>
     /\ Len(sent) = 1
     /\ IF Len(call.constraints) = 0
        THEN sent[1].method = "GET" /\ sent[1].target = CollectionTarget
        ELSE sent[1].method = "POST" /\ sent[1].target = RunQueryTarget

\* ------------------------------------------------------------------------
\* Properties of the query builder (SpecBuilder)
\* ------------------------------------------------------------------------
BuilderMethods == {"where", "orderBy", "limit"}

\* C5: no call of where, orderBy or limit changes a query that exists, and
\* the query such a call returns is a new one that carries the receiver's
\* constraints followed by the new constraint, with the receiver's instance
\* and path.
C5_QueriesImmutable ==
  [][/\ \A i \in DOMAIN queries : i \in DOMAIN queries' /\ queries'[i] = queries[i]
     /\ (builderCall'.method \in BuilderMethods /\ builderCall'.threw = "") =>
          /\ Len(queries') = Len(queries) + 1
          /\ builderCall'.returned = Len(queries')
          /\ builderCall'.receiver \in DOMAIN queries
          /\ queries'[Len(queries')].constraints =
               Append(queries[builderCall'.receiver].constraints,
                      builderCall'.constraint)
          /\ queries'[Len(queries')].basebase = queries[builderCall'.receiver].basebase
          /\ queries'[Len(queries')].path = queries[builderCall'.receiver].path]_vars

\* Two holders of one query have each derived a query from it, with
\* different constraints, and the query still has its own list.
C5_Witness ==
  /\ builderCall.method \in BuilderMethods
  /\ \E r, i, j \in DOMAIN queries :
       /\ r < i /\ i < j
       /\ Len(queries[r].constraints) > 0
       /\ Len(queries[i].constraints) = Len(queries[r].constraints) + 1
       /\ Len(queries[j].constraints) = Len(queries[r].constraints) + 1
       /\ SubSeq(queries[i].constraints, 1, Len(queries[r].constraints))
            = queries[r].constraints
       /\ SubSeq(queries[j].constraints, 1, Len(queries[r].constraints))
            = queries[r].constraints
       /\ queries[i].constraints # queries[j].constraints

\* ------------------------------------------------------------------------
\* Properties of Query.get (SpecQuery)
\* ------------------------------------------------------------------------
\* The positions of the constraints of a type in a constraint list.
PositionsOf(constraints, type) == { i \in DOMAIN constraints : constraints[i].type = type }

\* The position in the list of the k-th constraint of a type.
NthOf(constraints, type, k) ==
  CHOOSE i \in PositionsOf(constraints, type) :
    Cardinality({ j \in PositionsOf(constraints, type) : j <= i }) = k

OperatorNames ==
  [op \in {"==", ">="} |-> IF op = "==" THEN "EQUAL" ELSE "GREATER_THAN_OR_EQUAL"]

IsFieldFilterOf(filter, constraint) ==
  /\ DOMAIN filter = {"fieldFilter"}
  /\ filter.fieldFilter.field = [fieldPath |-> constraint.fieldPath]
  /\ filter.fieldFilter.op = OperatorNames[constraint.opStr]
  /\ filter.fieldFilter.value = toBasebaseValue(constraint.value)

RunQuerySent ==
  /\ call.op = "queryGet"
  /\ Len(sent) = 1
  /\ sent[1].target = RunQueryTarget

\* C7: the compiled request has one from clause naming the collection; no
\* where clause without a Where constraint, a single field filter with one,
\* a flat AND composite of one field filter per Where constraint in
\* declaration order with more; an orderBy entry per OrderBy constraint in
\* declaration order, asc as ASCENDING and desc as DESCENDING; a limit
\* exactly when there is a Limit constraint.
C7_StructuredQueryCompilation ==
  RunQuerySent =>
    LET q == sent[1].structuredQuery
        cs == call.constraints
        nWhere == Cardinality(PositionsOf(cs, "where"))
        nOrder == Cardinality(PositionsOf(cs, "orderBy"))
        nLimit == Cardinality(PositionsOf(cs, "limit"))
    IN  /\ q.from = <<[collectionId |-> "users", allDescendants |-> FALSE]>>
        /\ ("where" \in DOMAIN q) = (nWhere > 0)
        /\ nWhere = 1 => IsFieldFilterOf(q.where, cs[NthOf(cs, "where", 1)])
        /\ nWhere > 1 =>
             /\ DOMAIN q.where = {"compositeFilter"}
             /\ q.where.compositeFilter.op = "AND"
             /\ DOMAIN q.where.compositeFilter.filters = 1..nWhere
             /\ \A k \in 1..nWhere :
                  IsFieldFilterOf(q.where.compositeFilter.filters[k],
                                  cs[NthOf(cs, "where", k)])
        /\ ("orderBy" \in DOMAIN q) = (nOrder > 0)
        /\ nOrder > 0 =>
             /\ DOMAIN q.orderBy = 1..nOrder
             /\ \A k \in 1..nOrder :
                  LET c == cs[NthOf(cs, "orderBy", k)]
                  IN  /\ q.orderBy[k].field = [fieldPath |-> c.fieldPath]
                      /\ q.orderBy[k].direction =
                           (IF c.directionStr = "asc" THEN "ASCENDING" ELSE "DESCENDING")
        /\ ("limit" \in DOMAIN q) = (nLimit > 0)
        /\ nLimit > 0 => q.limit = cs[NthOf(cs, "limit", 1)].limit

\* A request compiled from two different Where constraints followed by a
\* descending OrderBy is in flight.
C7_Witness ==
  /\ RunQuerySent /\ pc = "query_run_wait"
  /\ Len(call.constraints) = 3
  /\ call.constraints[1].type = "where" /\ call.constraints[2].type = "where"
  /\ call.constraints[1] # call.constraints[2]
  /\ call.constraints[3].type = "orderBy" /\ call.constraints[3].directionStr = "desc"
  /\ "compositeFilter" \in DOMAIN sent[1].structuredQuery.where

\* The records of the answer's body: the envelopes' records for runQuery.
BodyRecords ==
  IF call.op = "queryGet" /\ Len(call.constraints) > 0
  THEN [i \in DOMAIN SelectSeq(LastAnswer.body, LAMBDA e : "document" \in DOMAIN e) |->
          SelectSeq(LastAnswer.body, LAMBDA e : "document" \in DOMAIN e)[i].document]
  ELSE LastAnswer.body

PositionIn(records, record) == CHOOSE i \in DOMAIN records : records[i] = record

\* The documents of the snapshot are records of the body, in the body's order.
InSourceOrder(docs, records) ==
  /\ \A i \in DOMAIN docs : \E p \in DOMAIN records : records[p] = docs[i].document
  /\ \A i, j \in DOMAIN docs :
       i < j => PositionIn(records, docs[i].document) < PositionIn(records, docs[j].document)

QueryAnswered ==
  /\ pc = "done"
  /\ call.op \in {"queryGet", "clientQueryGet"}
  /\ Len(answers) = 1
  /\ LastAnswer.outcome = "ok"
  /\ result.kind = "querySnapshot"

\* C8: whichever module runs the query and whatever the remote answers, the
\* snapshot of a query with a Limit n has at most n documents, in the order
\* of its OrderBy constraints (in the order of the answer when it has none).
C8_LimitAndOrder ==
  (QueryAnswered /\ limitConstraintsOf(call.constraints) # << >>) =>
     LET orders == orderByConstraintsOf(call.constraints)
     IN  /\ Len(result.docs) <= limitConstraintsOf(call.constraints)[1].limit.num
         /\ IF orders = << >>
            THEN InSourceOrder(result.docs, BodyRecords)
            ELSE \A i, j \in DOMAIN result.docs :
                   i < j => compareDocuments(SnapshotData(result.docs[i]),
                                             SnapshotData(result.docs[j]), orders) <= 0

\* The documents that satisfy every Where constraint, in the order fetched.
Matching(documents, constraints) ==
  SelectSeq(documents,
            LAMBDA doc :
              \A i \in PositionsOf(constraints, "where") :
                evaluateWhereCondition(getFieldValue(doc, constraints[i].fieldPath),
                                       constraints[i].opStr, constraints[i].value))

\* sorted is source sorted by the OrderBy keys, ties in source order.
IsStableSortOf(sorted, source, orders) ==
  /\ sorted \in PermutationsOf(source)
  /\ \A i, j \in DOMAIN sorted :
       i < j =>
         \/ compareDocuments(sorted[i], sorted[j], orders) < 0
         \/ /\ compareDocuments(sorted[i], sorted[j], orders) = 0
            /\ PositionIn(source, sorted[i]) < PositionIn(source, sorted[j])

\* C9: the snapshot of the client-side module holds the fetched documents
\* that satisfy every Where constraint, sorted by the OrderBy keys in
\* declaration order with ties in source order, cut to the first n when the
\* query has a Limit n.
C9_ClientSideResult ==
  (QueryAnswered /\ call.op = "clientQueryGet") =>
     LET matching == Matching(LastAnswer.body, call.constraints)
         orders == orderByConstraintsOf(call.constraints)
         limits == limitConstraintsOf(call.constraints)
         kept(all) == IF limits # << >> /\ limits[1].limit.num < Len(all)
                      THEN SubSeq(all, 1, limits[1].limit.num) ELSE all
     IN  \E sorted \in PermutationsOf(matching) :
           /\ IsStableSortOf(sorted, matching, orders)
           /\ [i \in DOMAIN result.docs |-> result.docs[i].document] = kept(sorted)

\* ------------------------------------------------------------------------
\* Properties of the app registry (SpecApp)
\* ------------------------------------------------------------------------
\* C10: initializeApp with a valid configuration fails with AlreadyExists
\* exactly when the registry holds an app of that name, and registers the
\* app otherwise; a failed call leaves the registries as they were; after
\* deleteApp the registry holds no app of that name and after clearAllApps
\* none at all; the registry never holds two apps under one name.
C10_RegistryUniqueness ==
  [][/\ (appCall'.op = "initializeApp" /\ appCall'.accepted) =>
          /\ (appCall'.result = ALREADY_EXISTS) = MapHas(appRegistry, appCall'.name)
          /\ appCall'.result \in {ALREADY_EXISTS, "ok"}
          /\ appCall'.result = "ok" =>
               /\ MapHas(appRegistry', appCall'.name)
               /\ MapGet(appRegistry', appCall'.name).id = appCall'.app
     /\ (appCall'.op = "initializeApp" /\ appCall'.result # "ok") =>
          /\ appRegistry' = appRegistry
          /\ basebaseRegistry' = basebaseRegistry
     /\ appCall'.op = "deleteApp" => ~MapHas(appRegistry', appCall'.name)
     /\ appCall'.op = "clearAllApps" => appRegistry' = << >>
     /\ \A i, j \in DOMAIN appRegistry' :
          appRegistry'[i].key = appRegistry'[j].key => i = j]_vars

\* An app was initialised under a name that an earlier app had and lost.
C10_Witness ==
  /\ appCall.op = "initializeApp" /\ appCall.result = "ok"
  /\ \E i \in DOMAIN apps : apps[i].name = appCall.name /\ apps[i].id < appCall.app
  /\ MapHas(appRegistry, appCall.name)
  /\ MapGet(appRegistry, appCall.name).id = appCall.app

\* ------------------------------------------------------------------------
\* Properties of the operations of one caller (SpecOps)
\* ------------------------------------------------------------------------
SingleRequestOps ==
  {"get", "update", "delete", "add", "collectionGet", "queryGet", "clientQueryGet"}

\* C11: no call retries.  A call of get, update, delete, add,
\* CollectionReference.get or Query.get has sent at most one request; a call
\* of set has sent at most two, a GET (only with merge or mergeFields) and
\* then a PUT; and every request but the last one sent was answered without
\* an error that the call propagates (a success, or the NotFound that the
\* read of set takes for a missing document), so that a call whose request
\* failed with a propagated error has ended and sent nothing after it.
C11_NoRetry ==
  /\ call.op \in SingleRequestOps => Len(sent) <= 1
  /\ call.op = "set" =>
       /\ Len(sent) <= 2
       /\ Len(sent) = 2 =>
            /\ call.merge \/ call.hasMergeFields
            /\ sent[1].method = "GET"
            /\ sent[2].method = "PUT"
       /\ Len(sent) = 1 =>
            sent[1].method = IF call.merge \/ call.hasMergeFields THEN "GET" ELSE "PUT"
  /\ Len(answers) <= Len(sent)
  /\ \A i \in 1..(Len(sent) - 1) :
       /\ i <= Len(answers)
       /\ answers[i].outcome \in HttpSuccess \cup {"s404"}
  /\ result.kind \in {"error", "typeError"} => pc = "done"

\* A set with merge whose PUT, its second request, failed.
C11_Witness ==
  /\ pc = "done"
  /\ call.op = "set"
  /\ Len(sent) = 2
  /\ Len(answers) = 2
  /\ answers[2].outcome = "s503"
  /\ result = ThrownError(UNAVAILABLE)

\* ------------------------------------------------------------------------
\* Properties of paths and reference factories (SpecPaths)
\* ------------------------------------------------------------------------
\* The identifier rules.
IsUrlSafeString(s, maxLength) ==
  /\ Len(s) >= 1
  /\ Len(s) <= maxLength
  /\ \A i \in DOMAIN s :
       s[i] \in LowercaseLetters \cup UppercaseLetters \cup Digits \cup {"_", "-"}
IsProjectId(s) == IsUrlSafeString(s, 24)
IsDocumentId(s) == IsUrlSafeString(s, 255)
IsCollectionName(s) ==
  /\ Len(s) >= 1
  /\ Len(s) <= 255
  /\ \A i \in DOMAIN s : s[i] \in LowercaseLetters \cup Digits \cup {"_", "-"}

\* The number of segments of a path: one more than it has separators.
SegmentCount(path) == Cardinality({ i \in DOMAIN path : path[i] = Slash }) + 1

\* A path with an identifier that breaks its rule: the first segment is the
\* project id, then collection names and document ids alternate.
BreaksIdentifierRule(path) ==
  LET segments == Split(path)
  IN  \/ ~IsProjectId(segments[1])
      \/ \E k \in 2..Len(segments) :
           IF k % 2 = 0 THEN ~IsCollectionName(segments[k])
           ELSE ~IsDocumentId(segments[k])

\* C12: a call of doc() or collection() on a path with a project id, a
\* collection name or a document id that breaks its rule, and a call of
\* CollectionReference.doc(id) with an id that breaks the DocumentId rule,
\* throws InvalidArgument, gives no reference and sends no request.
C12_IdentifierRules ==
  /\ (refCall.made /\ refCall.op \in {"doc", "collection"}
        /\ BreaksIdentifierRule(refCall.path)) =>
       /\ refCall.threw = INVALID_ARGUMENT
       /\ refCall.ref = NoReference
       /\ sent = << >>
  /\ (refCall.made /\ refCall.op = "collectionDoc" /\ refCall.path # << >>
        /\ ~IsDocumentId(refCall.path)) =>
       /\ refCall.threw = INVALID_ARGUMENT
       /\ refCall.ref = NoReference
       /\ sent = << >>

\* C13: a call of doc() that returns a reference was given a path with an
\* even number of segments, at least two, after its project segment, and a
\* call of collection() that returns one was given a path with an odd number
\* of segments after its project segment; a call that returns no reference
\* throws InvalidArgument.
C13_SegmentCount ==
  (refCall.made /\ refCall.op \in {"doc", "collection"}) =>
    LET after == SegmentCount(refCall.path) - 1
    IN  IF refCall.threw = ""
        THEN /\ refCall.ref # NoReference
             /\ refCall.op = "doc" => after % 2 = 0 /\ after >= 2
             /\ refCall.op = "collection" => after % 2 = 1
        ELSE refCall.threw = INVALID_ARGUMENT /\ refCall.ref = NoReference

\* A document nested in a subcollection, and a path of a document given to
\* collection().
C13_Witness ==
  /\ refCall.made
  /\ refCall.op = "doc"
  /\ refCall.threw = ""
  /\ SegmentCount(refCall.path) = 5
  /\ refCall.ref.parent.parent.kind = "document"

\* C13 as stated: doc() returns a reference only for an odd number of
\* segments after the project segment, collection() only for an even number.
C13_SegmentCountAsStated ==
  (refCall.made /\ refCall.op \in {"doc", "collection"} /\ refCall.threw = "") =>
    LET after == SegmentCount(refCall.path) - 1
    IN  /\ refCall.op = "doc" => after % 2 = 1
        /\ refCall.op = "collection" => after % 2 = 0

\* C14: resolvePath throws InvalidArgument for a path that is empty, starts
\* or ends with a separator, or has an empty segment; any other path of
\* fewer than three segments comes back with the project and a separator in
\* front of it, and any other path of three segments or more comes back as
\* it is.
C14_PathResolution ==
  (refCall.made /\ refCall.op = "resolvePath") =>
    LET path == refCall.path
        malformed ==
          \/ path = << >>
          \/ path[1] = Slash
          \/ path[Len(path)] = Slash
          \/ \E i \in 1..(Len(path) - 1) : path[i] = Slash /\ path[i + 1] = Slash
    IN  IF malformed
        THEN refCall.threw = INVALID_ARGUMENT /\ refCall.resolved = << >>
        ELSE /\ refCall.threw = ""
             /\ refCall.resolved =
                  IF SegmentCount(path) < 3
                  THEN refCall.project \o <<Slash>> \o path
                  ELSE path

\* A relative path of two segments was resolved.
C14_Witness ==
  /\ refCall.made
  /\ refCall.op = "resolvePath"
  /\ refCall.threw = ""
  /\ SegmentCount(refCall.path) = 2
  /\ refCall.resolved = <<"p", Slash>> \o refCall.path


\* C15: every Where and OrderBy constraint of every Query made by query(),
\* the factories and the builder methods has a non-empty field path, and an
\* OrderBy's direction is "asc" or "desc"; a where or orderBy call, factory or
\* builder, whose arguments break this throws INVALID_ARGUMENT and makes no
\* Query.
WellFormed(constraint) ==
  CASE constraint.type = "where" -> constraint.fieldPath # EmptyString
    [] constraint.type = "orderBy" ->
         /\ constraint.fieldPath # EmptyString
         /\ constraint.directionStr \in {"asc", "desc"}
    [] OTHER -> TRUE

C15_ConstraintValidity ==
  /\ \A q \in DOMAIN queries :
       \A i \in DOMAIN queries[q].constraints :
         WellFormed(queries[q].constraints[i])
  /\ /\ builderCall.method \in {"where", "orderBy", "whereFactory", "orderByFactory"}
     /\ ~WellFormed(builderCall.constraint)
     => builderCall.threw = INVALID_ARGUMENT /\ builderCall.returned = 0

\* C16: the limit factory and the limit builder method both throw
\* INVALID_ARGUMENT for a count that is zero, negative or not an integer, and
\* no Query carries such a count.
PositiveInteger(n) == "num" \in DOMAIN n /\ n.num > 0

C16_LimitPositiveInteger ==
  /\ \A q \in DOMAIN queries :
       \A i \in DOMAIN queries[q].constraints :
         queries[q].constraints[i].type = "limit"
           => PositiveInteger(queries[q].constraints[i].limit)
  /\ /\ builderCall.method \in {"limit", "limitFactory"}
     /\ ~PositiveInteger(builderCall.constraint.limit)
     => builderCall.threw = INVALID_ARGUMENT /\ builderCall.returned = 0

\* C17: where(field, "in", v) with a v that is not an array throws
\* INVALID_ARGUMENT when the constraint is made.
C17_InNeedsArray ==
  /\ builderCall.method = "whereFactory"
  /\ builderCall.constraint.opStr = "in"
  /\ "arr" \notin DOMAIN builderCall.constraint.value
  => builderCall.threw = INVALID_ARGUMENT


\* C18: a delete that follows an acknowledged delete of the same document
\* is acknowledged too, whether the remote answers it with a success or, the
\* document being gone, with 404.
C18_DeleteIdempotent ==
  /\ previous.op = "delete"
  /\ previous.result = WriteResult
  /\ pc = "done"
  /\ call.op = "delete"
  /\ Len(answers) > 0
  /\ LastAnswer.outcome \in HttpSuccess \cup {"s404"}
  => result = WriteResult

\* C19: whatever the remote answers, a success with an empty or non-JSON
\* body included, a failure of get, set, update, delete, add,
\* CollectionReference.get and Query.get is a BasebaseError whose code is one
\* of the eight kinds.
C19_FailureKinds ==
  pc = "done" /\ result.kind \notin {"none", "error"} => result.kind # "typeError"

C19_ErrorCodes ==
  pc = "done" /\ result.kind = "error" => result.code \in BASEBASE_ERROR_CODES

C19_EveryFailureHasKind == C19_FailureKinds /\ C19_ErrorCodes

\* C20: decoding the wire form of a host value gives that value back, and
\* the wire form has exactly one tag.
C20_RoundTrip ==
  codecCall.made =>
    /\ codecCall.decoded = codecCall.value
    /\ Cardinality(DOMAIN codecCall.wire) = 1

\* ------------------------------------------------------------------------
\* Properties of the authentication module (SpecAuth, SpecDatabase, SpecOps)
\* ------------------------------------------------------------------------
\* C21: a listener is called with the current auth state when it is
\* registered, is called with the new state at every later change of the
\* auth state while it is registered, and is not called once its
\* unsubscribe function has been called.
C21_ListenersHearEveryChange ==
  [][\A l \in Listeners :
       /\ l \in authListeners' \ authListeners
            => heard'[l] = Append(heard[l], getAuthState')
       /\ l \in authListeners \cap authListeners' /\ getAuthState' # getAuthState
            => heard'[l] = Append(heard[l], getAuthState')
       /\ l \in unsubscribed => heard'[l] = heard[l]]_vars

\* C22: an operation that passes its argument checks and is started while
\* no token is stored, or while the stored token is expired, throws
\* UNAUTHENTICATED without sending a request, and leaves no token stored (so
\* every operation after it does the same until a token is stored again).
C22_NoCredentialNoRequest ==
  [][/\ pc = "idle" /\ pc' # "idle"
     /\ token # "valid"
     /\ result' # ThrownError(INVALID_ARGUMENT)
     => /\ pc' = "done"
        /\ result' = ThrownError(UNAUTHENTICATED)
        /\ sent' = << >>
        /\ token' = "none"]_vars

C22_Witness ==
  /\ pc = "done"
  /\ call.op \in {"set", "update", "add", "queryGet", "clientQueryGet"}
  /\ result = ThrownError(UNAUTHENTICATED)
  /\ sent = << >>
  /\ token = "none"

\* C23: a set() without merge options and an update() send no GET and at
\* most one request; with object data and a usable token they send exactly
\* one, a PUT (set) or a PATCH (update) of the document whose field keys are
\* the keys of the data as given, a dotted key being one key; without a
\* usable token or with data that is no object they send nothing and throw.
PlainWrite ==
  \/ call.op = "set" /\ ~call.merge /\ ~call.hasMergeFields
  \/ call.op = "update"

WriteMethod == IF call.op = "set" THEN "PUT" ELSE "PATCH"

C23_PlainWritesNeverRead ==
  PlainWrite /\ pc # "idle" =>
    /\ \A i \in DOMAIN sent : sent[i].method # "GET"
    /\ Len(sent) <= 1
    /\ Len(sent) = 1 =>
         /\ sent[1].method = WriteMethod
         /\ sent[1].target = DocumentTarget
    /\ pc # "done" =>
         /\ Len(sent) = 1
         /\ DOMAIN sent[1].fields = DOMAIN call.data
         /\ \A k \in DOMAIN call.data :
              sent[1].fields[k] = toBasebaseValue(call.data[k])
    /\ pc = "done" /\ Len(sent) = 0 =>
         result \in {ThrownError(INVALID_ARGUMENT), ThrownError(UNAUTHENTICATED)}

C23_Witness ==
  /\ call.op = "update" /\ pc = "update_wait"
  /\ call.data = DottedData
  /\ DOMAIN sent[1].fields = {DottedKey}

\* C23 as claimed: every plain set() and every update() sends exactly one
\* request.
C23_ExactlyOneWrite ==
  PlainWrite /\ pc = "done" =>
    /\ Len(sent) = 1
    /\ sent[1].method = WriteMethod

\* ------------------------------------------------------------------------
\* Properties of the client-side evaluation (SpecMissing)
\* ------------------------------------------------------------------------
\* Every segment of the path is present in the value, from segment i on.
RECURSIVE HasPath(_, _, _)
HasPath(v, path, i) ==
  IF i > Len(path) THEN TRUE
  ELSE /\ "obj" \in DOMAIN v
       /\ path[i] \in DOMAIN v.obj
       /\ HasPath(v.obj[path[i]], path, i + 1)

Lacks(document, path) == ~HasPath([obj |-> document], path, 1)

\* C24: a fetched document that lacks a segment of the field path has the
\* looked-up value undefined; where(f, "==", v) with a defined v leaves it
\* out, where(f, "!=", v) with a defined v keeps it, and under orderBy(f)
\* ascending it comes before every document that has a value at f.
C24_MissingFields ==
  (QueryAnswered /\ call.op = "clientQueryGet" /\ Len(call.constraints) = 1) =>
     LET c == call.constraints[1]
         fetched == LastAnswer.body
         docs == [i \in DOMAIN result.docs |-> result.docs[i].document]
     IN  /\ \A p \in DOMAIN fetched :
              Lacks(fetched[p], c.fieldPath)
                => getFieldValue(fetched[p], c.fieldPath) = Undefined
         /\ c.type = "where" /\ c.opStr = "==" =>
              \A i \in DOMAIN docs : ~Lacks(docs[i], c.fieldPath)
         /\ c.type = "where" /\ c.opStr = "!=" =>
              \A p \in DOMAIN fetched :
                Lacks(fetched[p], c.fieldPath)
                  => \E i \in DOMAIN docs : docs[i] = fetched[p]
         /\ c.type = "orderBy" /\ c.directionStr = "asc" =>
              \A i, j \in DOMAIN docs :
                i < j => ~(Lacks(docs[j], c.fieldPath) /\ ~Lacks(docs[i], c.fieldPath))

\* The index-only id an extractor gives for a name that ends in a slash.
NameFallback(op, i) ==
  (IF op = "extractDocumentId" THEN <<"fallback_">> ELSE <<"doc_">>) \o IndexString(i)

\* The synthesized id: the index and the time of the call.
TimeFallback(i) == <<"doc_">> \o IndexString(i) \o <<"_", "now">>

\* Where an extractor looks for id, _id and ID: among the wire fields for an
\* envelope of a structured query, on the record itself otherwise.
IdHolder(op, doc) ==
  IF op = "extractDocumentIdFromDocument"
  THEN IF "fields" \in DOMAIN doc THEN doc.fields ELSE EmptyObject
  ELSE doc

\* The string a value of the holder stands for, << >> when it is no string.
IdString(v) ==
  IF "str" \in DOMAIN v THEN v.str
  ELSE IF "stringValue" \in DOMAIN v THEN v.stringValue ELSE << >>

\* A value of the holder that `||` passes over.
Falsy(v) == v \in {[str |-> << >>], [num |-> 0]}

IdKeyOrder == <<"id", "_id", "ID">>

\* The first of id, _id, ID the holder has with a value `||` stops at;
\* 0 when there is none.
FirstIdKey(holder) ==
  LET stops == { n \in 1..3 : IdKeyOrder[n] \in DOMAIN holder
                                /\ ~Falsy(holder[IdKeyOrder[n]]) }
  IN  IF stops = {} THEN 0 ELSE CHOOSE n \in stops : \A m \in stops : n <= m

\* The first of id, _id, ID the holder has at all; 0 when there is none.
FirstPresentIdKey(holder) ==
  LET there == { n \in 1..3 : IdKeyOrder[n] \in DOMAIN holder }
  IN  IF there = {} THEN 0 ELSE CHOOSE n \in there : \A m \in there : n <= m

\* C25 (as the code has it): the id is the last segment of a non-empty name
\* when that segment is not empty, and an id made of the index alone when it
\* is empty; without a name it is the first of id, _id, ID whose value is not
\* falsy, when that value is a non-empty string; else it is synthesized from
\* the index and the time.
C25_IdPriority ==
  codecCall.op \in ExtractOps /\ codecCall.made =>
    LET doc == codecCall.doc
        i == codecCall.fallbackIndex
        holder == IdHolder(codecCall.op, doc)
        n == FirstIdKey(holder)
    IN  codecCall.id =
          IF "name" \in DOMAIN doc /\ doc.name # <<"">>
          THEN IF doc.name[Len(doc.name)] # ""
               THEN <<doc.name[Len(doc.name)]>>
               ELSE NameFallback(codecCall.op, i)
          ELSE IF n # 0 /\ IdString(holder[IdKeyOrder[n]]) # << >>
               THEN IdString(holder[IdKeyOrder[n]])
               ELSE TimeFallback(i)

\* A listing record without a name whose id is the empty string: the id of
\* the reference is taken from _id.
C25_Witness ==
  /\ codecCall.op = "extractDocumentId" /\ codecCall.made
  /\ "name" \notin DOMAIN codecCall.doc
  /\ DOMAIN codecCall.doc = {"id", "_id"}
  /\ codecCall.doc["id"] = [str |-> << >>]
  /\ codecCall.doc["_id"] = [str |-> <<"y">>]
  /\ codecCall.id = <<"y">>

\* C25 (as stated): the id is the last segment of the name when the record
\* has a name; otherwise the first of id, _id, ID the record has, when that
\* is a string; otherwise it is synthesized from the index and the time.
C25_IdPriorityAsStated ==
  codecCall.op \in ExtractOps /\ codecCall.made =>
    LET doc == codecCall.doc
        i == codecCall.fallbackIndex
        holder == IdHolder(codecCall.op, doc)
        n == FirstPresentIdKey(holder)
        isString == n # 0 /\ (DOMAIN holder[IdKeyOrder[n]]) \cap {"str", "stringValue"} # {}
    IN  codecCall.id =
          IF "name" \in DOMAIN doc
          THEN IF doc.name[Len(doc.name)] = "" THEN << >>
               ELSE <<doc.name[Len(doc.name)]>>
          ELSE IF isString THEN IdString(holder[IdKeyOrder[n]])
               ELSE TimeFallback(i)

\* C26: every reference of a snapshot returned by CollectionReference.get()
\* or Query.get() has a path that ends in its id and a parent collection
\* reference whose path is the rest of that path.
C26_ReferenceShape ==
  (pc = "done" /\ result.kind = "querySnapshot") =>
     \A i \in DOMAIN result.docs :
        /\ result.docs[i].path = CollectionPath \o result.docs[i].id
        /\ result.docs[i].hasParent

\* C27: getBasebase(app) with the handle of the app that is registered under
\* its name returns an instance whose app is that app, never one that was
\* built for an earlier app of the name.
C27_CacheFollowsRegistry ==
  (/\ appCall.op = "getBasebase"
   /\ MapHas(appRegistry, appCall.name)
   /\ MapGet(appRegistry, appCall.name).id = appCall.handle)
    => appCall.app = appCall.handle

\* C28: every request sent through a reference of an instance that
\* getDatabase(t) returned carries the bearer token t.
C28_TokenIsolation ==
  (authCall.op = "request" /\ authCall.threw = "") =>
     authCall.bearer = databases[authCall.db]

\* C29: the cached instance and the cached initialization error are never
\* both set, and a getSingletonBasebase() that follows
\* resetSingletonBasebase() with a configuration available succeeds and
\* returns an instance.
C29_ResetRestores ==
  /\ ~(singletonInstance # 0 /\ initializationError # "")
  /\ (/\ singletonCall.op = "getSingletonBasebase"
      /\ singletonCall.after = "resetSingletonBasebase"
      /\ singletonCall.configured)
       => singletonCall.threw = "" /\ singletonCall.instance # 0

\* C30: compareValues(a, b) and compareValues(b, a) have opposite signs or
\* are both zero, and null and undefined compare before every other value.
C30_ConsistentOrdering ==
  (codecCall.op = "compareValues" /\ codecCall.made) =>
     /\ codecCall.forward = -codecCall.backward
     /\ (IsNullish(codecCall.a) /\ ~IsNullish(codecCall.b)) => codecCall.forward < 0

====
